---- MODULE Spec2Model ----
(***************************************************************************)
(* BeatBubble: the song data model with its pure mutation operations       *)
(* (core/ops, core/utils, core/defaults) and the lookahead playback        *)
(* scheduler (audio/engine).                                               *)
(*                                                                         *)
(* A NoteName is a string in the source ("C4", "F#3").  Here it is the     *)
(* record of the three groups of the regular expression of noteNameToMidi: *)
(* [letter, accidental, octave].  Two names are the same string exactly    *)
(* when the three fields agree.  Times are integer milliseconds.           *)
(***************************************************************************)
EXTENDS Integers, Sequences, FiniteSets, TLC

VARIABLES
    song,       \* the current Song value (page.tsx: useState<Song>)
    nextId,     \* the ids newId() has handed out so far are 1..nextId-1
    lastOp,     \* history: the last mutation called, with its arguments
    adjusts     \* history: the number of accepted adjustPitchBound calls

songVars == <<song, nextId, lastOp, adjusts>>

VARIABLES
    ctxReady,           \* AudioEngine.ctx and masterGain are set (init() is done)
    state,              \* AudioEngine.state
    schedulerInterval,  \* AudioEngine.schedulerInterval: a timer id, 0 for null
    nextNoteTime,       \* AudioEngine.nextNoteTime
    currentStep,        \* AudioEngine.currentStep
    currentTime,        \* AudioContext.currentTime, the audio clock
    intervals,          \* the recurring timers that are set, with their closures
    timeouts,           \* the one-shot timers that are pending
    sessions,           \* history: the number of play() calls that started playing
    stops,              \* history: the number of stop() calls that have returned
    lastStep,           \* history: the last onStep callback delivered
    lastCall,           \* history: the last init(), play(), stop() or timer tick
    lastTick,           \* history: the clock at the session's latest scheduler run
    sessionLog          \* history: the first start time of the latest session and
                        \* the cursor the latest stop() of a playing engine found

engineVars == <<ctxReady, state, schedulerInterval, nextNoteTime, currentStep,
                currentTime, intervals, timeouts, sessions, stops, lastStep,
                lastCall, lastTick, sessionLog>>

VARIABLES
    isDragging,          \* useDragInteraction: the isDragging state
    pending,             \* pendingRef.current
    drag,                \* dragRef.current
    lastInteractionEnd,  \* lastInteractionEndRef.current
    dateNow,             \* Date.now(), in milliseconds
    calls,               \* history: the callbacks called since the last start
    gesture              \* history: the course of the gesture since its start

hookVars == <<isDragging, pending, drag, lastInteractionEnd, dateNow, calls,
              gesture>>

VARIABLES
    previews,      \* the playNotePreview and playDrumPreview calls in flight
    previewCount,  \* history: the number of preview calls made so far
    lastSound      \* history: the last sound a preview call started

previewVars == <<previews, previewCount, lastSound>>

vars == <<songVars, engineVars, hookVars, previewVars>>

(***************************************************************************)
(* Bounds of the model.                                                    *)
(***************************************************************************)
MaxIdsSchedule == 3
MaxStep == 4            \* step arguments are drawn from -1..MaxStep
MaxDur == 5             \* the largest duration argument
MaxIds == 2             \* Spec, SpecBounds: editing stops after MaxIds calls of newId()
MaxAdjust == 2          \* at most MaxAdjust accepted adjustPitchBound calls
MaxPreviews == 2        \* SpecPreview: at most MaxPreviews preview calls
MaxPreviewPlays == 1    \* SpecPreview: at most so many play() and stop() calls
MaxPreviewTime == 50    \* SpecPreview: the clock stops here
MaxAdjustNatural == 14  \* accepted calls when only the bounds are adjusted
MaxIdsNotes == 2        \* SpecNotes: adding stops after so many calls of newId()
MaxIdsMelody == 4       \* SpecMelody: adding stops after so many calls of newId()
MaxIdsDrums == 3        \* SpecDrums: toggling stops after so many calls of newId()
MaxTime == 600          \* SpecEngine: the audio clock stops at MaxTime ms
MaxLate == 50           \* SpecEngine: a one-shot timer fires at most so many ms late
MaxPlays == 2           \* SpecEngine: at most MaxPlays play() calls start playing
MaxIdsPitch == 3        \* SpecPitch: adding stops after so many calls of newId()
MaxIdsLive == 4         \* SpecLive: editing stops after so many calls of newId()
MaxStops == 2           \* SpecEngine: at most MaxStops stop() calls

(***************************************************************************)
(* core/utils.ts                                                           *)
(***************************************************************************)
Min2(a, b) == IF a < b THEN a ELSE b
Max2(a, b) == IF a > b THEN a ELSE b

\* Mutant: the upper limit is forgotten.
clamp_NoMax(n, min, max) == Max2(min, n)

clamp(n, min, max) == Max2(min, Min2(max, n))

totalSteps(s) == s.bars * 4 * s.stepsPerBeat

\* Mutant: the duration is not cut at the end of the song.
normalizeDuration_NoUpper(s, startStep, durationSteps) == Max2(1, durationSteps)

normalizeDuration(s, startStep, durationSteps) ==
    LET total == totalSteps(s)
        maxDuration == total - startStep
    IN  clamp(durationSteps, 1, maxDuration)

NoteName(l, a, o) == [letter |-> l, accidental |-> a, octave |-> o]

UpperLetters == {"A", "B", "C", "D", "E", "F", "G"}
LowerLetters == {"a", "b", "c", "d", "e", "f", "g"}

toUpperCase(l) ==
    CASE l = "a" -> "A" [] l = "b" -> "B" [] l = "c" -> "C" [] l = "d" -> "D"
      [] l = "e" -> "E" [] l = "f" -> "F" [] l = "g" -> "G" [] OTHER -> l

NOTE_BASE(l) ==
    CASE l = "C" -> 0 [] l = "D" -> 2 [] l = "E" -> 4 [] l = "F" -> 5
      [] l = "G" -> 7 [] l = "A" -> 9 [] l = "B" -> 11

\* The regular expression /^([A-Ga-g])([#b]?)(-?\d+)$/ matches.
Parses(note) ==
    /\ note.letter \in UpperLetters \cup LowerLetters
    /\ note.accidental \in {"", "#", "b"}
    /\ note.octave \in Int

\* Defined for the names that parse; the source throws on the others.
noteNameToMidi(note) ==
    LET base == NOTE_BASE(toUpperCase(note.letter))
        midi == (note.octave + 1) * 12 + base
    IN  CASE note.accidental = "#" -> midi + 1
          [] note.accidental = "b" -> midi - 1
          [] OTHER -> midi

\* Mutant: the operands are swapped.
compareNotes_Swapped(a, b) == noteNameToMidi(b) - noteNameToMidi(a)

compareNotes(a, b) == noteNameToMidi(a) - noteNameToMidi(b)

MIDI_TO_NOTE ==
    <<NoteName("C", "", 0), NoteName("C", "#", 0), NoteName("D", "", 0),
      NoteName("D", "#", 0), NoteName("E", "", 0), NoteName("F", "", 0),
      NoteName("F", "#", 0), NoteName("G", "", 0), NoteName("G", "#", 0),
      NoteName("A", "", 0), NoteName("A", "#", 0), NoteName("B", "", 0)>>

WHITE_KEYS == {0, 2, 4, 5, 7, 9, 11}

\* Mutant: the octave is not shifted by one.
midiToNoteName_NoOctaveShift(midi) ==
    [MIDI_TO_NOTE[(midi % 12) + 1] EXCEPT !.octave = midi \div 12]

\* JavaScript's % keeps the sign of the dividend: a negative midi indexes
\* MIDI_TO_NOTE out of range and the name starts with "undefined".
midiToNoteName(midi) ==
    LET octave == (midi \div 12) - 1
    IN  IF midi >= 0
        THEN [MIDI_TO_NOTE[(midi % 12) + 1] EXCEPT !.octave = octave]
        ELSE IF (-midi) % 12 = 0
             THEN NoteName("C", "", octave)
             ELSE NoteName("undefined", "", octave)

isWhiteKey(midi) ==
    IF midi >= 0 THEN (midi % 12) \in WHITE_KEYS ELSE (-midi) % 12 = 0

\* Mutant: the pitch is kept when it is not a white key.
nearestWhiteKey_Keep(midi, semitones) == midi

RECURSIVE nearestWhiteKey(_, _)
nearestWhiteKey(midi, semitones) ==
    IF isWhiteKey(midi) THEN midi
    ELSE nearestWhiteKey(midi + (IF semitones > 0 THEN 1 ELSE -1), semitones)

transposeNoteName(note, semitones, allowAccidentals) ==
    LET midi == noteNameToMidi(note) + semitones
    IN  IF ~allowAccidentals
        THEN midiToNoteName(nearestWhiteKey(midi, semitones))
        ELSE midiToNoteName(midi)

PITCH_RANGE_MIN == NoteName("C", "", 2)
PITCH_RANGE_MAX == NoteName("C", "", 7)

(***************************************************************************)
(* core/defaults.ts                                                        *)
(***************************************************************************)
DEFAULT_SONG ==
    [version |-> 1, bpm |-> 100, stepsPerBeat |-> 4, bars |-> 4,
     instrument |-> "pianica",
     constraints |-> [minNote |-> NoteName("C", "", 4),
                      maxNote |-> NoteName("C", "", 5),
                      allowAccidentals |-> FALSE,
                      tempoLocked |-> FALSE,
                      barsLocked |-> FALSE,
                      drumsEnabled |-> TRUE],
     melody |-> [notes |-> <<>>],
     drums |-> [hits |-> <<>>]]

(***************************************************************************)
(* core/ops.ts.  newId() is passed in as the argument id.                  *)
(***************************************************************************)
\* The id the next call of newId() returns: one no earlier call returned.
newId == nextId

\* Mutant: only the lower bound is checked.
isNoteInRange_LowerOnly(note, minNote, maxNote) == compareNotes(note, minNote) >= 0

isNoteInRange(note, minNote, maxNote) ==
    compareNotes(note, minNote) >= 0 /\ compareNotes(note, maxNote) <= 0

\* Mutant: notes overlap only when they start on the same step.
notesOverlap_SameStart(a, b) == a.startStep = b.startStep

\* Mutant: notes that only touch count as overlapping.
notesOverlap_Touching(a, b) ==
    LET aEnd == a.startStep + a.durationSteps
        bEnd == b.startStep + b.durationSteps
    IN  a.startStep <= bEnd /\ b.startStep <= aEnd

notesOverlap(a, b) ==
    LET aEnd == a.startStep + a.durationSteps
        bEnd == b.startStep + b.durationSteps
    IN  a.startStep < bEnd /\ b.startStep < aEnd

\* Mutant: a song that does not allow accidentals rejects sharps and flats.
addMelodyNote_NaturalsOnly(s, params, id) ==
    LET startStep == params.startStep
        note == params.note
        newNote == [id |-> id, startStep |-> startStep,
                    durationSteps |->
                        normalizeDuration(s, startStep, params.durationSteps),
                    note |-> note]
        keep(existing) ==
            IF existing.note # note THEN TRUE ELSE ~notesOverlap(existing, newNote)
    IN  IF ~isNoteInRange(note, s.constraints.minNote, s.constraints.maxNote)
        THEN s
        ELSE IF ~s.constraints.allowAccidentals /\ note.accidental # "" THEN s
        ELSE IF startStep < 0 \/ startStep >= totalSteps(s) THEN s
        ELSE [s EXCEPT !.melody.notes =
                         SelectSeq(s.melody.notes, keep) \o <<newNote>>]

addMelodyNote(s, params, id) ==
    LET startStep == params.startStep
        durationSteps == params.durationSteps
        note == params.note
        minNote == s.constraints.minNote
        maxNote == s.constraints.maxNote
        total == totalSteps(s)
        normalizedDuration == normalizeDuration(s, startStep, durationSteps)
        newNote == [id |-> id, startStep |-> startStep,
                    durationSteps |-> normalizedDuration, note |-> note]
        keep(existing) ==
            IF existing.note # note THEN TRUE ELSE ~notesOverlap(existing, newNote)
        filteredNotes == SelectSeq(s.melody.notes, keep)
    IN  IF ~isNoteInRange(note, minNote, maxNote) THEN s
        ELSE IF startStep < 0 \/ startStep >= total THEN s
        ELSE [s EXCEPT !.melody.notes = filteredNotes \o <<newNote>>]

\* Mutant: a name that does not parse is rejected like a pitch out of range.
addMelodyNoteCall_Swallow(s, params, id) ==
    IF ~Parses(params.note)
    THEN [threw |-> FALSE, song |-> s]
    ELSE [threw |-> FALSE, song |-> addMelodyNote(s, params, id)]

\* The call with its way out: isNoteInRange compares the note with minNote
\* and, past that, with maxNote; noteNameToMidi throws on the first name that
\* does not parse and nothing on the way catches it.
addMelodyNoteCall(s, params, id) ==
    LET note == params.note
        minNote == s.constraints.minNote
        maxNote == s.constraints.maxNote
    IN  IF ~Parses(note) \/ ~Parses(minNote)
        THEN [threw |-> TRUE]
        ELSE IF compareNotes(note, minNote) >= 0 /\ ~Parses(maxNote)
        THEN [threw |-> TRUE]
        ELSE [threw |-> FALSE, song |-> addMelodyNote(s, params, id)]

removeMelodyNote_Upto(s, noteId) ==
    LET keep(n) == n.id > noteId
    IN  [s EXCEPT !.melody.notes = SelectSeq(s.melody.notes, keep)]

removeMelodyNote(s, noteId) ==
    LET keep(n) == n.id # noteId
    IN  [s EXCEPT !.melody.notes = SelectSeq(s.melody.notes, keep)]

setMelodyNoteDuration_Prune(s, noteId, durationSteps) ==
    LET resized(n) == [n EXCEPT !.durationSteps =
                          normalizeDuration(s, n.startStep, durationSteps)]
        keep(n) ==
            \/ n.id = noteId
            \/ \A i \in DOMAIN s.melody.notes :
                   LET m == s.melody.notes[i]
                   IN  (m.id = noteId /\ m.note = n.note)
                           => ~notesOverlap(n, resized(m))
    IN  [s EXCEPT !.melody.notes =
            [i \in DOMAIN SelectSeq(s.melody.notes, keep) |->
                LET n == SelectSeq(s.melody.notes, keep)[i]
                IN  IF n.id # noteId THEN n ELSE resized(n)]]

setMelodyNoteDuration(s, noteId, durationSteps) ==
    [s EXCEPT !.melody.notes =
        [i \in DOMAIN s.melody.notes |->
            LET n == s.melody.notes[i]
            IN  IF n.id # noteId THEN n
                ELSE [n EXCEPT !.durationSteps =
                        normalizeDuration(s, n.startStep, durationSteps)]]]

moveMelodyNote(s, noteId, newStartStep) ==
    LET total == totalSteps(s)
    IN  [s EXCEPT !.melody.notes =
            [i \in DOMAIN s.melody.notes |->
                LET n == s.melody.notes[i]
                    clampedStart == clamp(newStartStep, 0, total - 1)
                    maxDuration == total - clampedStart
                    adjustedDuration == Min2(n.durationSteps, maxDuration)
                IN  IF n.id # noteId THEN n
                    ELSE [n EXCEPT !.startStep = clampedStart,
                                   !.durationSteps = Max2(1, adjustedDuration)]]]

\* Array.prototype.findIndex over the set of the (1-based) positions that
\* match: 0-based, -1 when none does.
findIndex(found) ==
    IF found = {} THEN -1
    ELSE (CHOOSE i \in found : \A j \in found : i <= j) - 1

\* Mutant: step = totalSteps is let through.
toggleDrumHit_OffByOne(s, params, id) ==
    LET step == params.step
        drumId == params.drumId
        total == totalSteps(s)
        existingIndex ==
            findIndex({i \in DOMAIN s.drums.hits :
                          /\ s.drums.hits[i].step = step
                          /\ s.drums.hits[i].drumId = drumId})
        hits == s.drums.hits
    IN  IF step < 0 \/ step > total THEN s
        ELSE IF existingIndex >= 0
        THEN [s EXCEPT !.drums.hits =
                [i \in 1..(Len(hits) - 1) |->
                    IF i - 1 < existingIndex THEN hits[i] ELSE hits[i + 1]]]
        ELSE [s EXCEPT !.drums.hits =
                hits \o <<[id |-> id, step |-> step, drumId |-> drumId]>>]

\* Mutant: the existing hit is looked up by its step alone.
toggleDrumHit_StepOnly(s, params, id) ==
    LET step == params.step
        drumId == params.drumId
        total == totalSteps(s)
        existingIndex ==
            findIndex({i \in DOMAIN s.drums.hits : s.drums.hits[i].step = step})
        hits == s.drums.hits
    IN  IF step < 0 \/ step >= total THEN s
        ELSE IF existingIndex >= 0
        THEN [s EXCEPT !.drums.hits =
                [i \in 1..(Len(hits) - 1) |->
                    IF i - 1 < existingIndex THEN hits[i] ELSE hits[i + 1]]]
        ELSE [s EXCEPT !.drums.hits =
                hits \o <<[id |-> id, step |-> step, drumId |-> drumId]>>]

toggleDrumHit(s, params, id) ==
    LET step == params.step
        drumId == params.drumId
        total == totalSteps(s)
        existingIndex ==
            findIndex({i \in DOMAIN s.drums.hits :
                          /\ s.drums.hits[i].step = step
                          /\ s.drums.hits[i].drumId = drumId})
        hits == s.drums.hits
    IN  IF step < 0 \/ step >= total THEN s
        ELSE IF existingIndex >= 0
        THEN [s EXCEPT !.drums.hits =
                [i \in 1..(Len(hits) - 1) |->
                    IF i - 1 < existingIndex THEN hits[i] ELSE hits[i + 1]]]
        ELSE [s EXCEPT !.drums.hits =
                hits \o <<[id |-> id, step |-> step, drumId |-> drumId]>>]

\* Mutant: an accepted adjustment empties the melody.
adjustPitchBound_DropAll(s, bound, direction) ==
    LET minNote == s.constraints.minNote
        maxNote == s.constraints.maxNote
        allowAccidentals == s.constraints.allowAccidentals
        semitones == IF direction = "up" THEN 1 ELSE -1
        minMidi == noteNameToMidi(PITCH_RANGE_MIN)
        maxMidi == noteNameToMidi(PITCH_RANGE_MAX)
        transposed ==
            IF bound = "min"
            THEN transposeNoteName(minNote, semitones, allowAccidentals)
            ELSE transposeNoteName(maxNote, semitones, allowAccidentals)
        transposedMidi == noteNameToMidi(transposed)
        newMinNote == IF bound = "min" THEN transposed ELSE minNote
        newMaxNote == IF bound = "min" THEN maxNote ELSE transposed
    IN  IF transposedMidi < minMidi \/ transposedMidi > maxMidi THEN s
        ELSE IF bound = "min" /\ compareNotes(transposed, maxNote) > 0 THEN s
        ELSE IF bound # "min" /\ compareNotes(transposed, minNote) < 0 THEN s
        ELSE [s EXCEPT !.constraints.minNote = newMinNote,
                       !.constraints.maxNote = newMaxNote,
                       !.melody.notes = <<>>]

adjustPitchBound(s, bound, direction) ==
    LET minNote == s.constraints.minNote
        maxNote == s.constraints.maxNote
        allowAccidentals == s.constraints.allowAccidentals
        semitones == IF direction = "up" THEN 1 ELSE -1
        minMidi == noteNameToMidi(PITCH_RANGE_MIN)
        maxMidi == noteNameToMidi(PITCH_RANGE_MAX)
        transposed ==
            IF bound = "min"
            THEN transposeNoteName(minNote, semitones, allowAccidentals)
            ELSE transposeNoteName(maxNote, semitones, allowAccidentals)
        transposedMidi == noteNameToMidi(transposed)
        newMinNote == IF bound = "min" THEN transposed ELSE minNote
        newMaxNote == IF bound = "min" THEN maxNote ELSE transposed
        keep(note) == isNoteInRange(note.note, newMinNote, newMaxNote)
        filteredNotes == SelectSeq(s.melody.notes, keep)
    IN  IF transposedMidi < minMidi \/ transposedMidi > maxMidi THEN s
        ELSE IF bound = "min" /\ compareNotes(transposed, maxNote) > 0 THEN s
        ELSE IF bound # "min" /\ compareNotes(transposed, minNote) < 0 THEN s
        ELSE [s EXCEPT !.constraints.minNote = newMinNote,
                       !.constraints.maxNote = newMaxNote,
                       !.melody.notes = filteredNotes]

(***************************************************************************)
(* The editing side: the mutation operations applied to the current song.  *)
(* lastOp records which operation ran last and which way it returned.      *)
(***************************************************************************)
C4 == NoteName("C", "", 4)
C5 == NoteName("C", "", 5)
D5 == NoteName("D", "", 5)
H4 == NoteName("H", "", 4)     \* does not parse

NoteInputs == {C4, C5, D5, H4}
StepInputs == -1..MaxStep
DurInputs == {0, 1, 2, MaxDur}
IdInputs == 0..(MaxIds + 1)    \* no note or hit ever has id 0
DrumIds == {"kick", "snare", "hihat"}

AddInputs ==
    [startStep : StepInputs, durationSteps : DurInputs, note : NoteInputs]
ToggleInputs == [step : StepInputs, drumId : DrumIds]
\* The arguments the actions are applied to; the properties range over the
\* full sets above.
FewAddInputs ==
    [startStep : {-1, 0}, durationSteps : {0, 2}, note : {C4, C5, H4}]
FewDurInputs == {0, 2, MaxDur}
FewStepInputs == {-1, 1, MaxStep}
FewToggleInputs == [step : {-1, 0}, drumId : {"kick"}]
NotesAddInputs ==
    [startStep : {0, 2}, durationSteps : {1, MaxDur}, note : {C4, C5}]
MelodyAddInputs ==
    [startStep : {0, 1}, durationSteps : {1, 2}, note : {C4, C5}]

\* <<bars, stepsPerBeat>>: grids of 4 and 8 steps
GridInputs == {<<1, 1>>, <<1, 2>>}

InitialBounds ==
    {<<C4, C5>>, <<C4, C4>>,
     <<PITCH_RANGE_MIN, NoteName("D", "", 2)>>,
     <<NoteName("B", "", 6), PITCH_RANGE_MAX>>}

InitEditing ==
    /\ nextId = 1
    /\ lastOp = [op |-> "none"]
    /\ adjusts = 0

InitSong ==
    /\ \E g \in GridInputs, acc \in BOOLEAN, r \in InitialBounds :
          song = [DEFAULT_SONG EXCEPT !.bars = g[1], !.stepsPerBeat = g[2],
                                      !.constraints.minNote = r[1],
                                      !.constraints.maxNote = r[2],
                                      !.constraints.allowAccidentals = acc]
    /\ InitEditing

\* The default song on the grids of GridInputs.
InitDefaultSong ==
    /\ \E g \in GridInputs :
          song = [DEFAULT_SONG EXCEPT !.bars = g[1], !.stepsPerBeat = g[2]]
    /\ InitEditing

\* null, for a reference that holds no object.
null == [null |-> TRUE]

\* hooks/useDragInteraction.ts: pixels, pixels, and the milliseconds after an
\* interaction's end in which a mouse start is taken for a synthetic one.
DRAG_THRESHOLD == 5
CELL_WIDTH == 40
SYNTHETIC_MOUSE_WINDOW == 300

InitHook ==
    /\ isDragging = FALSE
    /\ pending = null
    /\ drag = null
    /\ lastInteractionEnd = 0
    /\ dateNow = SYNTHETIC_MOUSE_WINDOW
    /\ calls = <<>>
    /\ gesture = [phase |-> "none"]

InitPreview ==
    /\ previews = {}
    /\ previewCount = 0
    /\ lastSound = [kind |-> "none"]

InitEngine ==
    /\ ctxReady = FALSE
    /\ state = "stopped"
    /\ schedulerInterval = 0
    /\ nextNoteTime = 0
    /\ currentStep = 0
    /\ currentTime = 0
    /\ intervals = {}
    /\ timeouts = {}
    /\ sessions = 0
    /\ stops = 0
    /\ lastStep = [step |-> -1]
    /\ lastCall = [op |-> "none"]
    /\ lastTick = -1
    /\ sessionLog = [start |-> 0, stoppedAt |-> -1]

Init == InitSong /\ InitEngine /\ InitHook /\ InitPreview

\* newId() is called exactly when the note is accepted.
AddMelodyNote(p) ==
    /\ IF addMelodyNoteCall(song, p, newId).threw
       THEN /\ lastOp' = [op |-> "addMelodyNote", result |-> "threw"]
            /\ UNCHANGED <<song, nextId>>
       ELSE LET r == addMelodyNoteCall(song, p, newId).song
            IN  /\ song' = r
                /\ nextId' = IF r = song THEN nextId ELSE nextId + 1
                /\ lastOp' =
                     IF r = song
                     THEN [op |-> "addMelodyNote", result |-> "rejected"]
                     ELSE [op |-> "addMelodyNote", result |-> "accepted",
                           params |-> p,
                           removed |-> Len(song.melody.notes) + 1
                                       - Len(r.melody.notes)]
    /\ UNCHANGED <<adjusts, engineVars, hookVars, previewVars>>

RemoveMelodyNote(noteId) ==
    /\ song' = removeMelodyNote(song, noteId)
    /\ lastOp' = IF song' = song
                  THEN [op |-> "removeMelodyNote", result |-> "absent"]
                  ELSE [op |-> "removeMelodyNote", result |-> "removed",
                        noteId |-> noteId]
    /\ UNCHANGED <<nextId, adjusts, engineVars, hookVars, previewVars>>

SetMelodyNoteDuration(noteId, d) ==
    /\ song' = setMelodyNoteDuration(song, noteId, d)
    /\ lastOp' =
         IF \E i \in DOMAIN song.melody.notes : song.melody.notes[i].id = noteId
         THEN [op |-> "setMelodyNoteDuration", result |-> "found",
               noteId |-> noteId, durationSteps |-> d]
         ELSE [op |-> "setMelodyNoteDuration", result |-> "absent"]
    /\ UNCHANGED <<nextId, adjusts, engineVars, hookVars, previewVars>>

MoveMelodyNote(noteId, st) ==
    /\ song' = moveMelodyNote(song, noteId, st)
    /\ lastOp' =
         IF \E i \in DOMAIN song.melody.notes : song.melody.notes[i].id = noteId
         THEN [op |-> "moveMelodyNote", result |-> "found",
               noteId |-> noteId, newStartStep |-> st]
         ELSE [op |-> "moveMelodyNote", result |-> "absent"]
    /\ UNCHANGED <<nextId, adjusts, engineVars, hookVars, previewVars>>

\* newId() is called exactly when a hit is inserted.  repeat: the call before
\* this one was an accepted toggleDrumHit with the same params.
ToggleDrumHit(p) ==
    LET r == toggleDrumHit(song, p, newId)
        inserted == Len(r.drums.hits) > Len(song.drums.hits)
    IN  /\ song' = r
        /\ nextId' = IF inserted THEN nextId + 1 ELSE nextId
        /\ lastOp' =
             IF r = song
             THEN [op |-> "toggleDrumHit", result |-> "rejected"]
             ELSE [op |-> "toggleDrumHit",
                   result |-> IF inserted THEN "inserted" ELSE "removed",
                   params |-> p,
                   repeat |-> /\ lastOp.op = "toggleDrumHit"
                              /\ lastOp.result # "rejected"
                              /\ lastOp.params = p]
        /\ UNCHANGED <<adjusts, engineVars, hookVars, previewVars>>

AdjustPitchBound(bound, direction) ==
    LET r == adjustPitchBound(song, bound, direction)
    IN  /\ song' = r
        /\ adjusts' = IF r = song THEN adjusts ELSE adjusts + 1
        /\ lastOp' = [op |-> "adjustPitchBound", bound |-> bound,
                      direction |-> direction,
                      result |-> IF r = song THEN "rejected" ELSE "accepted",
                      pruned |-> Len(song.melody.notes) - Len(r.melody.notes)]
        /\ UNCHANGED <<nextId, engineVars, hookVars, previewVars>>

Next ==
    \/ nextId <= MaxIds /\ \E p \in FewAddInputs : AddMelodyNote(p)
    \/ \E id \in IdInputs : RemoveMelodyNote(id)
    \/ \E id \in IdInputs, d \in FewDurInputs : SetMelodyNoteDuration(id, d)
    \/ \E id \in IdInputs, st \in FewStepInputs : MoveMelodyNote(id, st)
    \/ nextId <= MaxIds /\ \E p \in FewToggleInputs : ToggleDrumHit(p)
    \/ \E b \in {"min", "max"}, d \in {"up", "down"} :
          /\ adjusts < MaxAdjust \/ adjustPitchBound(song, b, d) = song
          /\ AdjustPitchBound(b, d)

Spec == Init /\ [][Next]_vars

\* Only addMelodyNote and removeMelodyNote, from the default song.
NextMelody ==
    \/ nextId <= MaxIdsMelody /\ \E p \in MelodyAddInputs : AddMelodyNote(p)
    \/ \E id \in 0..MaxIdsMelody : RemoveMelodyNote(id)

InitMelody == InitDefaultSong /\ InitEngine /\ InitHook /\ InitPreview

SpecMelody == InitMelody /\ [][NextMelody]_vars

\* The pitch bounds: adjustPitchBound among adds, removals and toggles.
NextBounds ==
    \/ nextId <= MaxIds /\ \E p \in FewAddInputs : AddMelodyNote(p)
    \/ \E id \in IdInputs : RemoveMelodyNote(id)
    \/ nextId <= MaxIds /\ \E p \in FewToggleInputs : ToggleDrumHit(p)
    \/ \E b \in {"min", "max"}, d \in {"up", "down"} :
          /\ adjusts < MaxAdjust \/ adjustPitchBound(song, b, d) = song
          /\ AdjustPitchBound(b, d)

InitBounds == InitSong /\ InitEngine /\ InitHook /\ InitPreview

SpecBounds == InitBounds /\ [][NextBounds]_vars

\* Only adjustPitchBound, from the default song: fourteen accepted calls
\* carry a bound from C4 or C5 to either end of the C2..C7 range.
NextNatural ==
    \E b \in {"min", "max"}, d \in {"up", "down"} :
        /\ adjusts < MaxAdjustNatural \/ adjustPitchBound(song, b, d) = song
        /\ AdjustPitchBound(b, d)

InitNatural == InitDefaultSong /\ InitEngine /\ InitHook /\ InitPreview

SpecNatural == InitNatural /\ [][NextNatural]_vars

\* The grid: notes added to the default song, resized and moved.
NextNotes ==
    \/ nextId <= MaxIdsNotes /\ \E p \in NotesAddInputs : AddMelodyNote(p)
    \/ \E id \in 0..MaxIdsNotes, d \in FewDurInputs : SetMelodyNoteDuration(id, d)
    \/ \E id \in 0..MaxIdsNotes, st \in FewStepInputs : MoveMelodyNote(id, st)

InitNotes == InitDefaultSong /\ InitEngine /\ InitHook /\ InitPreview

SpecNotes == InitNotes /\ [][NextNotes]_vars

\* Two spellings of pitch index 61.
Cs4 == NoteName("C", "#", 4)
Db4 == NoteName("D", "b", 4)
PitchAddInputs ==
    [startStep : {0, 1}, durationSteps : {1, 2}, note : {Cs4, Db4}]

\* Only addMelodyNote, with enharmonic names, from the default song.
NextPitch ==
    nextId <= MaxIdsPitch /\ \E p \in PitchAddInputs : AddMelodyNote(p)

InitPitch == InitDefaultSong /\ InitEngine /\ InitHook /\ InitPreview

SpecPitch == InitPitch /\ [][NextPitch]_vars

\* Only toggleDrumHit, from the default song.
NextDrums ==
    nextId <= MaxIdsDrums /\ \E p \in ToggleInputs : ToggleDrumHit(p)

InitDrums == InitDefaultSong /\ InitEngine /\ InitHook /\ InitPreview

SpecDrums == InitDrums /\ [][NextDrums]_vars

(***************************************************************************)
(* The pitch utilities of core/utils.ts applied on their own: each action  *)
(* is one call, recorded in lastOp with its arguments and its result.      *)
(***************************************************************************)
MaxPitch == 30

OctaveInputs == {-1, 1}

NameInputs ==
    {NoteName(l, a, o) : l \in UpperLetters \cup {"c", "H"},
                         a \in {"", "#", "b"}, o \in OctaveInputs}

DeltaInputs == {-1, 1, 2}

MidiInputs == (0 - 3)..MaxPitch

TransposeNoteName(note, semitones, allowAccidentals) ==
    /\ lastOp' =
         IF ~Parses(note)
         THEN [op |-> "transposeNoteName", threw |-> TRUE]
         ELSE [op |-> "transposeNoteName", threw |-> FALSE, note |-> note,
               semitones |-> semitones,
               allowAccidentals |-> allowAccidentals,
               result |-> transposeNoteName(note, semitones, allowAccidentals)]
    /\ UNCHANGED <<song, nextId, adjusts, engineVars, hookVars, previewVars>>

NoteNameToMidi(note) ==
    /\ lastOp' =
         IF ~Parses(note)
         THEN [op |-> "noteNameToMidi", threw |-> TRUE]
         ELSE [op |-> "noteNameToMidi", threw |-> FALSE, note |-> note,
               result |-> noteNameToMidi(note)]
    /\ UNCHANGED <<song, nextId, adjusts, engineVars, hookVars, previewVars>>

MidiToNoteName(midi) ==
    /\ lastOp' = [op |-> "midiToNoteName", midi |-> midi,
                  result |-> midiToNoteName(midi)]
    /\ UNCHANGED <<song, nextId, adjusts, engineVars, hookVars, previewVars>>

NextUtils ==
    \/ \E note \in NameInputs, semitones \in DeltaInputs, acc \in BOOLEAN :
          TransposeNoteName(note, semitones, acc)
    \/ \E note \in NameInputs : NoteNameToMidi(note)
    \/ \E midi \in MidiInputs : MidiToNoteName(midi)

InitUtils == InitDefaultSong /\ InitEngine /\ InitHook /\ InitPreview

SpecUtils == InitUtils /\ [][NextUtils]_vars

(***************************************************************************)
(* core/legacy.ts.  A legacy cell is null or a record with the field note  *)
(* and some of the optional fields; a field that is absent is left out of  *)
(* the record.  The import copies cell.note as it is, so names stay        *)
(* strings here.                                                           *)
(***************************************************************************)
DRUM_NOTE_MAP(note) ==
    CASE note = "KICK" -> "kick"
      [] note = "SNARE" -> "snare"
      [] note = "HIHAT" -> "hihat"
      [] OTHER -> "undefined"

mapInstrument(musicData) ==
    IF "instrument" \in DOMAIN musicData
          /\ musicData.instrument \in {"pianica", "piano", "sine"}
    THEN musicData.instrument
    ELSE "pianica"

\* Mutant: every cell of a sustained run becomes a note.
importCell_EveryCell(s, cell, col, id) ==
    IF cell = null THEN s
    ELSE IF DRUM_NOTE_MAP(cell.note) # "undefined"
    THEN [s EXCEPT !.drums.hits =
            Append(@, [id |-> id, step |-> col,
                       drumId |-> DRUM_NOTE_MAP(cell.note)])]
    ELSE [s EXCEPT !.melody.notes =
            Append(@, [id |-> id, startStep |-> col,
                       durationSteps |-> IF "length" \in DOMAIN cell
                                         THEN cell.length ELSE 1,
                       note |-> cell.note])]

\* The body of the inner loop for the cell at column col.
importCell(s, cell, col, id) ==
    IF cell = null THEN s
    ELSE IF DRUM_NOTE_MAP(cell.note) # "undefined"
    THEN [s EXCEPT !.drums.hits =
            Append(@, [id |-> id, step |-> col,
                       drumId |-> DRUM_NOTE_MAP(cell.note)])]
    ELSE IF "start" \in DOMAIN cell /\ cell.start = TRUE
    THEN [s EXCEPT !.melody.notes =
            Append(@, [id |-> id, startStep |-> col,
                       durationSteps |-> IF "length" \in DOMAIN cell
                                         THEN cell.length ELSE 1,
                       note |-> cell.note])]
    ELSE s

\* The two loops from row r (from 1) and column col (from 0) on; id is the
\* next id newId() returns.
RECURSIVE importGrid(_, _, _, _, _)
importGrid(grid, r, col, s, id) ==
    IF r > Len(grid) THEN s
    ELSE IF col >= Len(grid[r]) THEN importGrid(grid, r + 1, 0, s, id)
    ELSE LET t == importCell(s, grid[r][col + 1], col, id)
         IN  importGrid(grid, r, col + 1, t, IF t = s THEN id ELSE id + 1)

fromLegacyMusicData(musicData, id) ==
    LET stepsPerBeat == 4
        bars == (musicData.beats + (stepsPerBeat * 4) - 1) \div (stepsPerBeat * 4)
        bpm == IF "bpm" \in DOMAIN musicData THEN musicData.bpm ELSE 100
        instrument == mapInstrument(musicData)
        s == [version |-> 1, bpm |-> bpm, stepsPerBeat |-> stepsPerBeat,
              bars |-> bars, instrument |-> instrument,
              constraints |-> DEFAULT_SONG.constraints,
              melody |-> [notes |-> <<>>],
              drums |-> [hits |-> <<>>]]
    IN  importGrid(musicData.grid, 1, 0, s, id)

MaxCols == 2

LegacyCells ==
    {null,
     [note |-> "KICK"],
     [note |-> "SNARE", start |-> TRUE, length |-> 2],
     [note |-> "C4", start |-> TRUE, length |-> 2],
     [note |-> "C4", start |-> TRUE],
     [note |-> "C4", sustained |-> TRUE],
     [note |-> "D4", start |-> FALSE, length |-> 2]}

LegacyRows == UNION {[1..n -> LegacyCells] : n \in 0..MaxCols}

\* Rows of one cell at most.
LegacyShortRows == UNION {[1..n -> LegacyCells] : n \in 0..1}

\* Grids of two rows and of one, with and without a tempo.
LegacyInputs ==
    {[grid |-> <<r1, r2>>, beats |-> 16] :
        r1 \in LegacyRows, r2 \in LegacyShortRows}
    \cup {[grid |-> <<r1>>, beats |-> 17, bpm |-> 90, instrument |-> "organ"] :
             r1 \in LegacyRows}

\* The import makes the first song of a session.
FromLegacyMusicData(musicData) ==
    /\ lastOp.op = "none"
    /\ song' = fromLegacyMusicData(musicData, newId)
    /\ nextId' = nextId + Len(song'.melody.notes) + Len(song'.drums.hits)
    /\ lastOp' = [op |-> "fromLegacyMusicData", musicData |-> musicData]
    /\ UNCHANGED <<adjusts, engineVars, hookVars, previewVars>>

NextLegacy == \E musicData \in LegacyInputs : FromLegacyMusicData(musicData)

InitLegacy == InitDefaultSong /\ InitEngine /\ InitHook /\ InitPreview

SpecLegacy == InitLegacy /\ [][NextLegacy]_vars

(***************************************************************************)
(* hooks/useDragInteraction.ts.  The callbacks belong to the caller: a     *)
(* call is recorded in calls, findNoteAt's answer comes with the start and *)
(* onNoteCreate's answer with the move (0 for null).  The grid is mounted  *)
(* while its handlers run and its left edge is at clientX 0.               *)
(***************************************************************************)
MaxDate == 700
MaxCalls == 3

Abs(n) == IF n < 0 THEN 0 - n ELSE n

ExistingInputs ==
    {null,
     [id |-> 1, startStep |-> 2, durationSteps |-> 1, note |-> C4],
     [id |-> 1, startStep |-> 1, durationSteps |-> 2, note |-> C4]}

\* A start at clientX 100 on the cell of step 2; moves of 2 pixels, of the
\* threshold and of two cells.
MoveInputs == {98, 105, 170}

CreatedInputs == {0, 7}

StartInteraction(clientX, noteName, step, isTouch, existingNote) ==
    /\ IF ~isTouch /\ dateNow - lastInteractionEnd < SYNTHETIC_MOUSE_WINDOW
       THEN UNCHANGED <<pending, drag>>
       ELSE /\ pending' = [clientX |-> clientX, noteName |-> noteName,
                           step |-> step, existingNote |-> existingNote]
            /\ drag' = null
    /\ calls' = <<>>
    /\ gesture' = [phase |-> "open", clientX |-> clientX, noteName |-> noteName,
                   step |-> step, existingNote |-> existingNote,
                   isTouch |-> isTouch,
                   accepted |-> pending' # null,
                   reached |-> FALSE, entered |-> -1]
    /\ UNCHANGED <<isDragging, lastInteractionEnd, dateNow>>
    /\ UNCHANGED <<songVars, engineVars, previewVars>>

HandleMove(clientX, created) ==
    /\ IF pending = null
       THEN UNCHANGED <<drag, isDragging, calls>>
       ELSE IF drag # null
       THEN LET currentStepAt == clientX \div CELL_WIDTH
                newDuration == Max2(1, currentStepAt - drag.startStep + 1)
            IN  /\ calls' = Append(calls, [fn |-> "onNoteDurationChange",
                                           noteId |-> drag.noteId,
                                           duration |-> newDuration])
                /\ UNCHANGED <<drag, isDragging>>
       ELSE IF Abs(clientX - pending.clientX) >= DRAG_THRESHOLD
       THEN IF pending.existingNote # null
            THEN IF pending.step = pending.existingNote.startStep
                 THEN /\ drag' = [noteId |-> pending.existingNote.id,
                                  startStep |-> pending.existingNote.startStep]
                      /\ isDragging' = TRUE
                      /\ UNCHANGED calls
                 ELSE UNCHANGED <<drag, isDragging, calls>>
            ELSE /\ calls' = Append(calls, [fn |-> "onNoteCreate",
                                            noteName |-> pending.noteName,
                                            step |-> pending.step])
                 /\ IF created # 0
                    THEN /\ drag' = [noteId |-> created,
                                     startStep |-> pending.step]
                         /\ isDragging' = TRUE
                    ELSE UNCHANGED <<drag, isDragging>>
       ELSE UNCHANGED <<drag, isDragging, calls>>
    /\ gesture' =
         IF gesture.phase # "open" THEN gesture
         ELSE [gesture EXCEPT
                 !.reached = @ \/ Abs(clientX - gesture.clientX) >= DRAG_THRESHOLD,
                 !.entered = IF drag = null /\ drag' # null
                             THEN Len(calls') ELSE @]
    /\ UNCHANGED <<pending, lastInteractionEnd, dateNow>>
    /\ UNCHANGED <<songVars, engineVars, previewVars>>

EndInteraction ==
    /\ IF pending # null /\ drag = null
       THEN IF pending.existingNote # null
            THEN calls' = Append(calls, [fn |-> "onNoteRemove",
                                         noteId |-> pending.existingNote.id])
            ELSE calls' = Append(calls, [fn |-> "onNoteCreate",
                                         noteName |-> pending.noteName,
                                         step |-> pending.step])
       ELSE UNCHANGED calls
    /\ pending' = null
    /\ drag' = null
    /\ isDragging' = FALSE
    /\ lastInteractionEnd' = dateNow
    /\ gesture' = IF gesture.phase = "open"
                  THEN [gesture EXCEPT !.phase = "ended"] ELSE gesture
    /\ UNCHANGED dateNow
    /\ UNCHANGED <<songVars, engineVars, previewVars>>

CancelInteraction ==
    /\ pending' = null
    /\ drag' = null
    /\ isDragging' = FALSE
    /\ gesture' = IF gesture.phase = "open"
                  THEN [gesture EXCEPT !.phase = "cancelled"] ELSE gesture
    /\ UNCHANGED <<lastInteractionEnd, dateNow, calls>>
    /\ UNCHANGED <<songVars, engineVars, previewVars>>

\* Time passes.
AdvanceDate ==
    /\ dateNow < MaxDate
    /\ dateNow' = dateNow + 100
    /\ UNCHANGED <<isDragging, pending, drag, lastInteractionEnd, calls, gesture>>
    /\ UNCHANGED <<songVars, engineVars, previewVars>>

\* One pointer: a gesture starts when no other is under way.
NextGesture ==
    \/ /\ gesture.phase # "open"
       /\ \E isTouch \in BOOLEAN, existingNote \in ExistingInputs :
             StartInteraction(100, C4, 2, isTouch, existingNote)
    \/ /\ Len(calls) < MaxCalls
       /\ \E clientX \in MoveInputs, created \in CreatedInputs :
             HandleMove(clientX, created)
    \/ EndInteraction
    \/ CancelInteraction
    \/ AdvanceDate

InitGesture == InitDefaultSong /\ InitEngine /\ InitHook /\ InitPreview

SpecGesture == InitGesture /\ [][NextGesture]_vars

(***************************************************************************)
(* audio/engine.ts.  Times are milliseconds: AudioContext.currentTime and  *)
(* the clock of setTimeout/setInterval are read off the one currentTime.   *)
(***************************************************************************)
SCHEDULE_INTERVAL == 25
LOOKAHEAD == 150
PLAY_LEAD == 50

\* engine.ts:60-61, in ms; exact for the tempos of TempoInputs.
secondsPerStep(s) == (60000 \div s.bpm) \div s.stepsPerBeat

\* <<bpm, stepsPerBeat>>
TempoInputs == {<<100, 4>>, <<200, 1>>}

\* The while loop of scheduler(), run to its end with the clock at now: the
\* closure's secondsPerStep and total, the engine's nextNoteTime and
\* currentStep.  scheduled lists the <<step, time>> pairs handed to
\* scheduleStep, in order.
RECURSIVE schedulerLoop_NoWrap(_, _, _, _, _, _)
schedulerLoop_NoWrap(now, sps, total, time, step, scheduled) ==
    IF time < now + LOOKAHEAD
    THEN schedulerLoop_NoWrap(now, sps, total, time + sps, step + 1,
                              Append(scheduled, <<step, time>>))
    ELSE [nextNoteTime |-> time, currentStep |-> step, scheduled |-> scheduled]

RECURSIVE schedulerLoop_NoLookahead(_, _, _, _, _, _)
schedulerLoop_NoLookahead(now, sps, total, time, step, scheduled) ==
    IF time < now + PLAY_LEAD
    THEN schedulerLoop_NoLookahead(now, sps, total, time + sps,
                                   IF step + 1 >= total THEN 0 ELSE step + 1,
                                   Append(scheduled, <<step, time>>))
    ELSE [nextNoteTime |-> time, currentStep |-> step, scheduled |-> scheduled]

\* Mutant: the cursor returns to step 0 one step early.
RECURSIVE schedulerLoop_SkipLast(_, _, _, _, _, _)
schedulerLoop_SkipLast(now, sps, total, time, step, scheduled) ==
    IF time < now + LOOKAHEAD
    THEN schedulerLoop_SkipLast(now, sps, total, time + sps,
                                IF step + 2 >= total THEN 0 ELSE step + 1,
                                Append(scheduled, <<step, time>>))
    ELSE [nextNoteTime |-> time, currentStep |-> step, scheduled |-> scheduled]

\* Mutant: a step that starts exactly at the horizon is scheduled too.
RECURSIVE schedulerLoop_Inclusive(_, _, _, _, _, _)
schedulerLoop_Inclusive(now, sps, total, time, step, scheduled) ==
    IF time <= now + LOOKAHEAD
    THEN schedulerLoop_Inclusive(now, sps, total, time + sps,
                                 IF step + 1 >= total THEN 0 ELSE step + 1,
                                 Append(scheduled, <<step, time>>))
    ELSE [nextNoteTime |-> time, currentStep |-> step, scheduled |-> scheduled]

RECURSIVE schedulerLoop(_, _, _, _, _, _)
schedulerLoop(now, sps, total, time, step, scheduled) ==
    IF time < now + LOOKAHEAD
    THEN schedulerLoop(now, sps, total, time + sps,
                       IF step + 1 >= total THEN 0 ELSE step + 1,
                       Append(scheduled, <<step, time>>))
    ELSE [nextNoteTime |-> time, currentStep |-> step, scheduled |-> scheduled]

\* Mutant: a note is triggered at every step it covers.
scheduleStep_Covering(s, step, time, sps) ==
    LET covers(n) == n.startStep <= step /\ step < n.startStep + n.durationSteps
        atStep(h) == h.step = step
        notes == SelectSeq(s.melody.notes, covers)
        hits == SelectSeq(s.drums.hits, atStep)
    IN  [i \in 1..Len(notes) |->
            [kind |-> "melody", note |-> notes[i].note, startTime |-> time,
             duration |-> notes[i].durationSteps * sps]]
        \o [i \in 1..Len(hits) |->
               [kind |-> "drum", drumId |-> hits[i].drumId, startTime |-> time]]

\* scheduleStep(song, step, time, secondsPerStep): the playMelodyNote and
\* playDrum calls it makes, in the order it makes them.
scheduleStep(s, step, time, sps) ==
    LET starts(n) == n.startStep = step
        atStep(h) == h.step = step
        notes == SelectSeq(s.melody.notes, starts)
        hits == SelectSeq(s.drums.hits, atStep)
    IN  [i \in 1..Len(notes) |->
            [kind |-> "melody", note |-> notes[i].note, startTime |-> time,
             duration |-> notes[i].durationSteps * sps]]
        \o [i \in 1..Len(hits) |->
               [kind |-> "drum", drumId |-> hits[i].drumId, startTime |-> time]]

\* The triggers of one scheduler run, from the song s.
triggersOf(s, sps, scheduled) ==
    UNION {{scheduleStep(s, scheduled[i][1], scheduled[i][2], sps)[k] :
               k \in DOMAIN scheduleStep(s, scheduled[i][1], scheduled[i][2], sps)} :
              i \in DOMAIN scheduled}

\* The setTimeout calls of one scheduler run: the timer of <<step, time>> is
\* due Math.max(0, time - now) after now.  session and stops are history: the
\* play() call that set the timer and the stop() calls returned by then.
newTimeouts(now, scheduled, session) ==
    {[step |-> scheduled[i][1], due |-> Max2(now, scheduled[i][2]),
      session |-> session, stops |-> stops] : i \in DOMAIN scheduled}

\* The fields of the engine and the timers it has set.
EngineState ==
    [ctxReady |-> ctxReady, state |-> state,
     schedulerInterval |-> schedulerInterval, nextNoteTime |-> nextNoteTime,
     currentStep |-> currentStep, currentTime |-> currentTime,
     intervals |-> intervals, timeouts |-> timeouts, sessions |-> sessions]

SetEngine(e) ==
    /\ ctxReady' = e.ctxReady
    /\ state' = e.state
    /\ schedulerInterval' = e.schedulerInterval
    /\ nextNoteTime' = e.nextNoteTime
    /\ currentStep' = e.currentStep
    /\ currentTime' = e.currentTime
    /\ intervals' = e.intervals
    /\ timeouts' = e.timeouts
    /\ sessions' = e.sessions

\* One run of scheduler(), the closure of a play() call, on the engine e:
\* the new nextNoteTime and currentStep and the steps handed to scheduleStep.
schedulerRun_NoGuard(e, closure) ==
    schedulerLoop(e.currentTime, closure.secondsPerStep, closure.total,
                  e.nextNoteTime, e.currentStep, <<>>)

schedulerRun(e, closure) ==
    IF ~e.ctxReady \/ e.state # "playing"
    THEN [nextNoteTime |-> e.nextNoteTime, currentStep |-> e.currentStep,
          scheduled |-> <<>>]
    ELSE schedulerLoop(e.currentTime, closure.secondsPerStep, closure.total,
                       e.nextNoteTime, e.currentStep, <<>>)

\* The engine after scheduler() has run.
afterScheduler(e, closure) ==
    LET run == schedulerRun(e, closure)
    IN  [e EXCEPT !.nextNoteTime = run.nextNoteTime,
                  !.currentStep = run.currentStep,
                  !.timeouts = e.timeouts \cup
                      (IF closure.onStep
                       THEN newTimeouts(e.currentTime, run.scheduled,
                                        closure.session)
                       ELSE {})]

\* scheduler(), the closure of the play() call numbered session.
scheduler(closure) == SetEngine(afterScheduler(EngineState, closure))

\* The closure play(s, onStep) makes on the engine e.
newClosure(e, s, onStep) ==
    [session |-> e.sessions + 1, song |-> s,
     secondsPerStep |-> secondsPerStep(s), total |-> totalSteps(s),
     onStep |-> onStep]

\* Mutant: the first step starts at the clock, without the lead.
play_NoLead(e, s, onStep) ==
    IF e.state = "playing" THEN e
    ELSE IF ~e.ctxReady THEN e
    ELSE LET closure == newClosure(e, s, onStep)
             started == [e EXCEPT !.state = "playing", !.currentStep = 0,
                                  !.nextNoteTime = e.currentTime,
                                  !.sessions = e.sessions + 1,
                                  !.schedulerInterval = closure.session,
                                  !.intervals = e.intervals \cup {closure}]
         IN  afterScheduler(started, closure)

\* play(song, onStep) on the engine e
play_NoGuard(e, s, onStep) ==
    LET closure == newClosure(e, s, onStep)
        started == [e EXCEPT !.state = "playing", !.currentStep = 0,
                             !.nextNoteTime = e.currentTime + PLAY_LEAD,
                             !.sessions = e.sessions + 1,
                             !.schedulerInterval = closure.session,
                             !.intervals = e.intervals \cup {closure}]
    IN  afterScheduler(started, closure)

play(e, s, onStep) ==
    IF e.state = "playing" THEN e
    ELSE IF ~e.ctxReady THEN e
    ELSE LET closure == newClosure(e, s, onStep)
             started == [e EXCEPT !.state = "playing", !.currentStep = 0,
                                  !.nextNoteTime = e.currentTime + PLAY_LEAD,
                                  !.sessions = e.sessions + 1,
                                  !.schedulerInterval = closure.session,
                                  !.intervals = e.intervals \cup {closure}]
         IN  afterScheduler(started, closure)

\* stop() on the engine e
stop_KeepStep(e) ==
    [e EXCEPT !.intervals = {c \in e.intervals : c.session # e.schedulerInterval},
              !.schedulerInterval = 0,
              !.state = "stopped"]

stop(e) ==
    [e EXCEPT !.intervals = IF e.schedulerInterval # 0
                            THEN {c \in e.intervals :
                                     c.session # e.schedulerInterval}
                            ELSE e.intervals,
              !.schedulerInterval = 0,
              !.state = "stopped",
              !.currentStep = 0]

\* init(): the context and the master gain exist afterwards.
EngineInit ==
    /\ ctxReady' = TRUE
    /\ lastCall' = [op |-> "init"]
    /\ UNCHANGED <<state, schedulerInterval, nextNoteTime, currentStep,
                   currentTime, intervals, timeouts, sessions, stops, lastStep,
                   lastTick, sessionLog>>
    /\ UNCHANGED <<songVars, hookVars, previewVars>>

\* play(song, onStep).  lastCall records how it returned and, when it
\* started playing, what its scheduler() call handed to scheduleStep.
Play(onStep) ==
    /\ SetEngine(play(EngineState, song, onStep))
    /\ IF state = "playing"
       THEN /\ lastCall' = [op |-> "play", result |-> "playing"]
            /\ UNCHANGED <<lastTick, sessionLog>>
       ELSE IF ~ctxReady
       THEN /\ lastCall' = [op |-> "play", result |-> "uninitialized"]
            /\ UNCHANGED <<lastTick, sessionLog>>
       ELSE LET closure == newClosure(EngineState, song, onStep)
                run == schedulerLoop(currentTime, closure.secondsPerStep,
                                     closure.total, currentTime + PLAY_LEAD,
                                     0, <<>>)
            IN  /\ lastCall' = [op |-> "play", result |-> "started",
                                scheduled |-> run.scheduled,
                                triggers |-> triggersOf(closure.song,
                                    closure.secondsPerStep, run.scheduled),
                                live |-> triggersOf(song,
                                    closure.secondsPerStep, run.scheduled)]
                /\ lastTick' = currentTime
                /\ sessionLog' = [sessionLog EXCEPT
                                    !.start = IF Len(run.scheduled) > 0
                                              THEN run.scheduled[1][2]
                                              ELSE run.nextNoteTime]
    /\ UNCHANGED <<stops, lastStep>>
    /\ UNCHANGED <<songVars, hookVars, previewVars>>

\* The recurring timer of a play() call fires: its scheduler runs.  lastCall
\* records the steps handed to scheduleStep, the triggers made from the
\* closure's song, the triggers the current song would give (live), and the
\* time since the previous run (gap).
Tick(closure) ==
    /\ closure \in intervals
    /\ scheduler(closure)
    /\ LET run == schedulerRun(EngineState, closure)
       IN  lastCall' = [op |-> "tick", gap |-> currentTime - lastTick,
                        scheduled |-> run.scheduled,
                        triggers |-> triggersOf(closure.song,
                            closure.secondsPerStep, run.scheduled),
                        live |-> triggersOf(song, closure.secondsPerStep,
                                            run.scheduled)]
    /\ lastTick' = currentTime
    /\ UNCHANGED <<stops, lastStep, sessionLog>>
    /\ UNCHANGED <<songVars, hookVars, previewVars>>

\* A one-shot timer expires: onStep(stepToReport) is called when the engine
\* is playing.  stale: a stop() has returned since the timer was set.
FireTimeout(timer) ==
    /\ timer \in timeouts
    /\ timer.due <= currentTime
    /\ timeouts' = timeouts \ {timer}
    /\ lastStep' = IF state = "playing"
                   THEN [step |-> timer.step, session |-> timer.session,
                         stale |-> timer.stops < stops]
                   ELSE lastStep
    /\ UNCHANGED <<ctxReady, state, schedulerInterval, nextNoteTime, currentStep,
                   currentTime, intervals, sessions, stops, lastCall, lastTick,
                   sessionLog>>
    /\ UNCHANGED <<songVars, hookVars, previewVars>>

\* stop()
Stop ==
    /\ SetEngine(stop(EngineState))
    /\ stops' = stops + 1
    /\ lastCall' = [op |-> "stop", was |-> state,
                    again |-> (lastCall.op = "stop")]
    /\ sessionLog' = IF state = "playing"
                     THEN [sessionLog EXCEPT !.stoppedAt = currentStep]
                     ELSE sessionLog
    /\ UNCHANGED <<lastStep, lastTick>>
    /\ UNCHANGED <<songVars, hookVars, previewVars>>

\* The clock moves on by one timer period; no pending one-shot timer is left
\* more than MaxLate behind.
AdvanceClock ==
    /\ currentTime + SCHEDULE_INTERVAL <= MaxTime
    /\ \A timer \in timeouts :
          currentTime + SCHEDULE_INTERVAL <= timer.due + MaxLate
    /\ currentTime' = currentTime + SCHEDULE_INTERVAL
    /\ UNCHANGED <<ctxReady, state, schedulerInterval, nextNoteTime, currentStep,
                   intervals, timeouts, sessions, stops, lastStep, lastCall,
                   lastTick, sessionLog>>
    /\ UNCHANGED <<songVars, hookVars, previewVars>>

\* The default song at the tempos of TempoInputs, with the bars of GridInputs.
(***************************************************************************)
(* The previews: playNotePreview(noteName) and playDrumPreview(drumId).    *)
(* Both are async: they await init(), which itself awaits ctx.resume()     *)
(* when the browser has left the context suspended, and start their sound  *)
(* after that.  Other calls and timer ticks run between the parts.         *)
(***************************************************************************)
PreviewNotes == {C4}
PreviewDrums == {"kick"}

\* Mutant: init() brings the transport back to its stopped state.
init_Reset(e) ==
    [e EXCEPT !.ctxReady = TRUE, !.state = "stopped", !.currentStep = 0]

\* init() to its end: the context, the master gain and the noise buffer
\* exist afterwards.
init(e) == [e EXCEPT !.ctxReady = TRUE]

\* The part of a preview call before its first await: init() runs to
\* ctx.resume() when the context is suspended and to its end when it is not.
previewCall(kind, arg, suspended) ==
    /\ SetEngine(IF suspended THEN EngineState ELSE init(EngineState))
    /\ previews' = previews \cup
          {[id |-> previewCount + 1, kind |-> kind, arg |-> arg,
            phase |-> IF suspended THEN "resume" ELSE "sound",
            state |-> state, cursor |-> currentStep]}
    /\ previewCount' = previewCount + 1
    /\ UNCHANGED <<lastSound, stops, lastStep, lastCall, lastTick, sessionLog>>
    /\ UNCHANGED <<songVars, hookVars>>

PlayNotePreview(noteName, suspended) == previewCall("note", noteName, suspended)

PlayDrumPreview(drumId, suspended) == previewCall("drum", drumId, suspended)

\* ctx.resume() has resolved: init() goes on to its end.
ResumePreview(p) ==
    /\ p.phase = "resume"
    /\ SetEngine(init(EngineState))
    /\ previews' = (previews \ {p}) \cup {[p EXCEPT !.phase = "sound"]}
    /\ UNCHANGED <<previewCount, lastSound, stops, lastStep, lastCall, lastTick,
                   sessionLog>>
    /\ UNCHANGED <<songVars, hookVars>>

\* init() has resolved: playMelodyNote(noteName, ctx.currentTime, 0.3) or
\* playDrum(drumId, ctx.currentTime), which return at once without the
\* context or the master gain.  lastSound keeps the transport state and the
\* cursor the call found when it was made, and the cursor now.
SoundPreview(p) ==
    /\ p.phase = "sound"
    /\ previews' = previews \ {p}
    /\ lastSound' = IF ctxReady
                    THEN [kind |-> p.kind, arg |-> p.arg, time |-> currentTime,
                          calledIn |-> p.state, calledAt |-> p.cursor,
                          cursor |-> currentStep]
                    ELSE lastSound
    /\ UNCHANGED previewCount
    /\ UNCHANGED <<songVars, engineVars, hookVars>>

InitEngineSong ==
    /\ \E g \in GridInputs, tempo \in TempoInputs :
          song = [DEFAULT_SONG EXCEPT !.bars = g[1], !.bpm = tempo[1],
                                      !.stepsPerBeat = tempo[2]]
    /\ InitEditing

NextEngine ==
    \/ EngineInit
    \/ sessions < MaxPlays /\ \E onStep \in BOOLEAN : Play(onStep)
    \/ \E closure \in intervals : Tick(closure)
    \/ \E timer \in timeouts : FireTimeout(timer)
    \/ stops < MaxStops /\ Stop
    \/ AdvanceClock

InitPlayback == InitEngineSong /\ InitEngine /\ InitHook /\ InitPreview

SpecEngine == InitPlayback /\ [][NextEngine]_vars

\* <<bpm, stepsPerBeat>>: 150 ms a step on 16 steps, 100 ms a step on 4 steps
\* (fromLegacyMusicData takes any bpm).
TransportTempoInputs == {<<100, 4>>, <<600, 1>>}

\* A song with a kick on step 0, a snare on step 3 and a two-step C4 on step 1.
PlayedSong(tempo) ==
    LET s0 == [DEFAULT_SONG EXCEPT !.bars = 1, !.bpm = tempo[1],
                                   !.stepsPerBeat = tempo[2]]
        s1 == toggleDrumHit(s0, [step |-> 0, drumId |-> "kick"], 1)
        s2 == toggleDrumHit(s1, [step |-> 3, drumId |-> "snare"], 2)
    IN  addMelodyNote(s2, [startStep |-> 1, durationSteps |-> 2, note |-> C4], 3)

InitPlayedSong ==
    /\ \E tempo \in TransportTempoInputs : song = PlayedSong(tempo)
    /\ nextId = 4
    /\ lastOp = [op |-> "none"]
    /\ adjusts = 0

\* The transport without onStep: init(), play(song), stop(), the recurring
\* timer and the clock.
NextTransport ==
    \/ EngineInit
    \/ sessions < MaxPlays /\ Play(FALSE)
    \/ \E closure \in intervals : Tick(closure)
    \/ stops < MaxStops /\ Stop
    \/ AdvanceClock

InitTransport == InitPlayedSong /\ InitEngine /\ InitHook /\ InitPreview

SpecTransport == InitTransport /\ [][NextTransport]_vars

(***************************************************************************)
(* The transport with a clock that never ends.  The engine only compares   *)
(* differences of times, so the times are kept relative to the audio       *)
(* clock: currentTime stays where it is and, when SCHEDULE_INTERVAL ms     *)
(* pass, every stored time moves back by as much.  The recurring timer     *)
(* runs at most MaxLate ms late.                                           *)
(***************************************************************************)
LoopSong == PlayedSong(<<600, 1>>)

LoopSteps == 0..(totalSteps(LoopSong) - 1)

\* The history record c with its times moved back by d.
ShiftCall(c, d) ==
    IF "scheduled" \in DOMAIN c
    THEN [c EXCEPT
            !.scheduled = [i \in DOMAIN @ |-> <<@[i][1], @[i][2] - d>>],
            !.triggers = {[tr EXCEPT !.startTime = @ - d] : tr \in @},
            !.live = {[tr EXCEPT !.startTime = @ - d] : tr \in @}]
    ELSE c

\* The session's first start time moved back by d, and forward again by
\* whole passes of the loop once a pass lies behind the latest run.
ShiftStart(start, d) ==
    LET pass == secondsPerStep(song) * totalSteps(song)
    IN  IF start - d + pass <= lastTick - d
        THEN start - d + pass
        ELSE start - d

AdvanceClockRelative ==
    /\ state = "playing"
    /\ currentTime - lastTick <= MaxLate
    /\ nextNoteTime' = nextNoteTime - SCHEDULE_INTERVAL
    /\ lastTick' = lastTick - SCHEDULE_INTERVAL
    /\ lastCall' = ShiftCall(lastCall, SCHEDULE_INTERVAL)
    /\ sessionLog' = [sessionLog EXCEPT
                        !.start = ShiftStart(@, SCHEDULE_INTERVAL)]
    /\ UNCHANGED <<ctxReady, state, schedulerInterval, currentStep, currentTime,
                   intervals, timeouts, sessions, stops, lastStep>>
    /\ UNCHANGED <<songVars, hookVars, previewVars>>

NextLoop ==
    \/ EngineInit
    \/ sessions < MaxPlays /\ Play(FALSE)
    \/ \E closure \in intervals : Tick(closure)
    \/ stops < MaxStops /\ Stop
    \/ AdvanceClockRelative

InitLoop ==
    /\ song = LoopSong
    /\ nextId = 4
    /\ lastOp = [op |-> "none"]
    /\ adjusts = 0
    /\ InitEngine
    /\ InitHook
    /\ InitPreview

\* setInterval calls scheduler again and again until clearInterval, and the
\* audio clock of a running context does not stop.
SpecLoop ==
    /\ InitLoop
    /\ [][NextLoop]_vars
    /\ WF_vars(AdvanceClockRelative)
    /\ WF_vars(\E closure \in intervals : Tick(closure))

\* The previews among play(song), stop(), the recurring timer and the clock.
NextPreview ==
    \/ previewCount < MaxPreviews /\
          \E noteName \in PreviewNotes, suspended \in BOOLEAN :
              PlayNotePreview(noteName, suspended)
    \/ previewCount < MaxPreviews /\
          \E drumId \in PreviewDrums, suspended \in BOOLEAN :
              PlayDrumPreview(drumId, suspended)
    \/ \E p \in previews : ResumePreview(p)
    \/ \E p \in previews : SoundPreview(p)
    \/ sessions < MaxPreviewPlays /\ Play(FALSE)
    \/ \E closure \in intervals : Tick(closure)
    \/ stops < MaxPreviewPlays /\ Stop
    \/ currentTime < MaxPreviewTime /\ AdvanceClock

InitPreviewed ==
    /\ song = LoopSong
    /\ nextId = 4
    /\ lastOp = [op |-> "none"]
    /\ adjusts = 0
    /\ InitEngine /\ InitHook /\ InitPreview

SpecPreview == InitPreviewed /\ [][NextPreview]_vars

\* The cells toggled during playback: the kick of PlayedSong and a free cell.
LiveToggleInputs == [step : {0, 2}, drumId : {"kick"}]

\* One playback session with the drum lane edited while it plays.
NextLive ==
    \/ EngineInit
    \/ sessions = 0 /\ Play(FALSE)
    \/ \E closure \in intervals : Tick(closure)
    \/ AdvanceClock
    \/ /\ state = "playing"
       /\ nextId <= MaxIdsLive
       /\ \E p \in LiveToggleInputs : ToggleDrumHit(p)

InitLive == InitPlayedSong /\ InitEngine /\ InitHook /\ InitPreview

SpecLive == InitLive /\ [][NextLive]_vars

\* scheduleStep on its own, on the songs the editing operations build: the
\* scheduler calls it with a step of the grid and the step's start time.
ScheduleAddInputs ==
    [startStep : {0, 1}, durationSteps : {1, 3}, note : {C4, C5}]

ScheduleToggleInputs == [step : {0, 1}, drumId : {"kick", "snare"}]

ScheduleTimes == {50, 350}

ScheduleStep(step, time) ==
    /\ step < totalSteps(song)
    /\ lastCall' = [op |-> "scheduleStep", song |-> song, step |-> step,
                    time |-> time,
                    triggers |-> scheduleStep(song, step, time,
                                              secondsPerStep(song))]
    /\ UNCHANGED <<ctxReady, state, schedulerInterval, nextNoteTime, currentStep,
                   currentTime, intervals, timeouts, sessions, stops, lastStep,
                   lastTick, sessionLog>>
    /\ UNCHANGED <<songVars, hookVars, previewVars>>

\* The song is built first, then its steps are scheduled.
NextSchedule ==
    \/ /\ lastCall.op = "none"
       /\ nextId <= MaxIdsSchedule
       /\ \E p \in ScheduleAddInputs : AddMelodyNote(p)
    \/ /\ lastCall.op = "none"
       /\ nextId <= MaxIdsSchedule
       /\ \E p \in ScheduleToggleInputs : ToggleDrumHit(p)
    \/ \E step \in 0..MaxStep, time \in ScheduleTimes : ScheduleStep(step, time)

InitSchedule == InitDefaultSong /\ InitEngine /\ InitHook /\ InitPreview

SpecSchedule == InitSchedule /\ [][NextSchedule]_vars

(***************************************************************************)
(* Properties of the playback scheduler.                                   *)
(***************************************************************************)
\* C10: once stop() has returned, no onStep callback that was scheduled
\* before that stop() is delivered, also when play() is called again before
\* the callback's timer expires.
C10_NoStepAfterStop ==
    lastStep.step # -1 => ~lastStep.stale

\* The closures play() can have made by now, with or without onStep.
Closures ==
    {newClosure([sessions |-> k - 1], song, b) : k \in 1..MaxPlays, b \in BOOLEAN}

\* C11: once stop() has returned and until a play() starts playing again, no
\* recurring timer is set, and a scheduler() call of any closure that still
\* runs hands nothing to scheduleStep, sets no timer and leaves nextNoteTime
\* and currentStep alone.
C11_NoTriggerAfterStop ==
    state = "stopped" =>
        /\ intervals = {}
        /\ schedulerInterval = 0
        /\ \A closure \in Closures :
              /\ schedulerRun(EngineState, closure).scheduled = <<>>
              /\ afterScheduler(EngineState, closure) = EngineState

\* stop() has returned on an engine that was playing and had scheduled
\* triggers past the clock.
C11_Witness ==
    /\ lastCall.op = "stop" /\ lastCall.was = "playing"
    /\ state = "stopped"
    /\ nextNoteTime < currentTime + LOOKAHEAD

\* C12: play() while playing returns the engine as it is (cursor, next-step
\* time and timers); there is at most one recurring timer, and there is one
\* exactly when the state is playing.
C12_PlayWhilePlaying ==
    /\ Cardinality(intervals) <= 1
    /\ (intervals # {}) <=> (state = "playing")
    /\ state = "playing" =>
          \A onStep \in BOOLEAN : play(EngineState, song, onStep) = EngineState

\* play() was called on a playing engine whose cursor had moved on.
C12_Witness ==
    /\ lastCall.op = "play" /\ lastCall.result = "playing"
    /\ state = "playing"
    /\ currentStep > 1

\* C13: before init() has completed the engine is stopped, and play() returns
\* it as it is: no recurring timer, no one-shot timer, cursor and next-step
\* time unchanged.
C13_PlayBeforeInit ==
    ~ctxReady =>
        /\ state = "stopped"
        /\ intervals = {} /\ timeouts = {}
        /\ \A onStep \in BOOLEAN : play(EngineState, song, onStep) = EngineState

\* play() was called before init(), after the clock had moved.
C13_Witness ==
    /\ lastCall.op = "play" /\ lastCall.result = "uninitialized"
    /\ currentTime > 0

\* C14: stop() in either state gives state stopped, no recurring timer and
\* cursor 0, and a second stop() changes nothing.
C14_StopIdempotent ==
    LET r == stop(EngineState)
    IN  /\ r.state = "stopped"
        /\ r.intervals = {} /\ r.schedulerInterval = 0
        /\ r.currentStep = 0
        /\ stop(r) = r
        /\ lastCall.op = "stop" =>
              /\ state = "stopped" /\ intervals = {} /\ currentStep = 0
              /\ r = EngineState

\* stop() was called twice in a row after the engine had played.
C14_Witness ==
    /\ lastCall.op = "stop" /\ lastCall.again
    /\ sessions >= 1

\* C15: the triggers of every scheduler run are the ones the current song
\* gives for the scheduled steps: a hit or note added to a step after play()
\* started is triggered when that step is scheduled next, a removed one is
\* not.
C15_EditsTakeEffect ==
    lastCall.op = "tick" => lastCall.triggers = lastCall.live

\* chain: each <<step, time>> follows the one before by one step modulo total
\* and by sps.
IsChain(chain, sps, total) ==
    \A i \in 1..(Len(chain) - 1) :
        /\ chain[i + 1][1] = (chain[i][1] + 1) % total
        /\ chain[i + 1][2] = chain[i][2] + sps

\* C16: while playing, the cursor lies in [0, totalSteps); the steps a
\* scheduler run hands to scheduleStep start at the cursor and the next-step
\* time, each following the one before by one step modulo totalSteps and by
\* secondsPerStep, and the run leaves the cursor and the next-step time one
\* such step after the last of them.
C16_StepsInSequence ==
    state = "playing" =>
        \A closure \in intervals :
            LET sps == closure.secondsPerStep
                total == closure.total
                run == schedulerRun(EngineState, closure)
                next(r) == <<r.currentStep, r.nextNoteTime>>
            IN  /\ 0 <= currentStep /\ currentStep < total
                /\ sps > 0
                /\ run.scheduled # <<>> => run.scheduled[1] = next(EngineState)
                /\ IsChain(run.scheduled \o <<next(run)>>, sps, total)
                /\ lastCall.op \in {"play", "tick"} /\ "scheduled" \in DOMAIN lastCall
                      => IsChain(lastCall.scheduled \o <<next(EngineState)>>,
                                 sps, total)

\* A timer tick has scheduled step 0 again, after the last step of the song.
C16_Witness ==
    /\ lastCall.op = "tick"
    /\ Len(lastCall.scheduled) >= 2
    /\ \E i \in 1..(Len(lastCall.scheduled) - 1) :
          /\ lastCall.scheduled[i][1] = totalSteps(song) - 1
          /\ lastCall.scheduled[i + 1][1] = 0
          /\ lastCall.scheduled[i + 1][2] > lastCall.scheduled[i][2]

\* C17: when the scheduler runs no later than LOOKAHEAD after its previous
\* run in the session (the first run is the one inside play()), every step
\* it hands to scheduleStep, and so every trigger, starts at or after the
\* clock.
C17_TriggersAhead ==
    /\ (state = "playing" /\ currentTime - lastTick <= LOOKAHEAD) =>
          \A closure \in intervals :
              LET run == schedulerRun(EngineState, closure)
              IN  /\ \A i \in DOMAIN run.scheduled :
                        run.scheduled[i][2] >= currentTime
                  /\ \A tr \in triggersOf(closure.song, closure.secondsPerStep,
                                          run.scheduled) :
                        tr.startTime >= currentTime
    /\ (lastCall.op = "tick" /\ lastCall.gap <= LOOKAHEAD) =>
          \A tr \in lastCall.triggers : tr.startTime >= lastTick
    /\ (lastCall.op = "play" /\ lastCall.result = "started") =>
          \A tr \in lastCall.triggers : tr.startTime >= lastTick

\* A tick that ran exactly LOOKAHEAD after the previous run has emitted a
\* trigger that starts at the clock.
C17_Witness ==
    /\ lastCall.op = "tick" /\ lastCall.gap = LOOKAHEAD
    /\ \E tr \in lastCall.triggers : tr.startTime = lastTick

(***************************************************************************)
(* Properties of the mutation operations.                                  *)
(***************************************************************************)
Notes == song.melody.notes
Hits == song.drums.hits
Total == song.bars * 4 * song.stepsPerBeat
MinMidi == noteNameToMidi(song.constraints.minNote)
MaxMidi == noteNameToMidi(song.constraints.maxNote)
EndStep(n) == n.startStep + n.durationSteps
Disjoint(a, b) == EndStep(a) <= b.startStep \/ EndStep(b) <= a.startStep
PitchInRange(note) ==
    MinMidi <= noteNameToMidi(note) /\ noteNameToMidi(note) <= MaxMidi
StepInRange(step) == 0 <= step /\ step < Total
\* d clamped into [1, Total - startStep]
ClampedDuration(startStep, d) ==
    IF d >= Total - startStep THEN Total - startStep
    ELSE IF d <= 1 THEN 1 ELSE d
Accepted(p) ==
    Parses(p.note) /\ PitchInRange(p.note) /\ StepInRange(p.startStep)

\* C1: built by addMelodyNote and removeMelodyNote from a song without notes,
\* no two notes with the same note name have overlapping step intervals.
C1_NoOverlapSameName ==
    \A i, j \in DOMAIN Notes :
        (i < j /\ Notes[i].note = Notes[j].note) => Disjoint(Notes[i], Notes[j])

\* An accepted add has just removed an overlapping note, and the song holds
\* two notes of one name.
C1_Witness ==
    /\ lastOp.op = "addMelodyNote" /\ lastOp.result = "accepted"
    /\ lastOp.removed >= 1
    /\ \E i, j \in DOMAIN Notes : i < j /\ Notes[i].note = Notes[j].note

\* C2: an accepted addMelodyNote yields the existing notes without the
\* same-name notes whose interval overlaps the new one, in their order,
\* followed by the new note with the requested start and the clamped
\* duration; touching same-name notes and other names are kept.
C2_AddResult ==
    \A p \in AddInputs :
        Accepted(p) =>
            LET d == ClampedDuration(p.startStep, p.durationSteps)
                new == [id |-> nextId, startStep |-> p.startStep,
                        durationSteps |-> d, note |-> p.note]
                kept(n) == n.note # p.note \/ Disjoint(n, new)
            IN  addMelodyNote(song, p, nextId) =
                    [song EXCEPT !.melody.notes = SelectSeq(Notes, kept) \o <<new>>]

\* The last add removed an overlapping note and kept a touching note of the
\* same name and a note of another name.
C2_Witness ==
    /\ lastOp.op = "addMelodyNote" /\ lastOp.result = "accepted"
    /\ lastOp.removed >= 1
    /\ Len(Notes) >= 3
    /\ LET new == Notes[Len(Notes)]
       IN  /\ \E i \in 1..(Len(Notes) - 1) :
                 /\ Notes[i].note = new.note
                 /\ EndStep(Notes[i]) = new.startStep
           /\ \E i \in 1..(Len(Notes) - 1) : Notes[i].note # new.note

\* C3: every melody note's pitch index lies within [minNote, maxNote] of the
\* same song, also in the song an adjustPitchBound call returns.
C3_NotesInRange ==
    /\ \A i \in DOMAIN Notes : PitchInRange(Notes[i].note)
    /\ \A b \in {"min", "max"}, d \in {"up", "down"} :
          LET r == adjustPitchBound(song, b, d)
          IN  \A i \in DOMAIN r.melody.notes :
                 /\ noteNameToMidi(r.constraints.minNote)
                      <= noteNameToMidi(r.melody.notes[i].note)
                 /\ noteNameToMidi(r.melody.notes[i].note)
                      <= noteNameToMidi(r.constraints.maxNote)

\* A narrowing adjustPitchBound has just pruned a note.
C3_Witness ==
    /\ lastOp.op = "adjustPitchBound" /\ lastOp.result = "accepted"
    /\ lastOp.pruned >= 1

\* C4: every melody note has startStep >= 0, durationSteps >= 1 and
\* startStep + durationSteps <= totalSteps(song).
C4_NotesInGrid ==
    \A i \in DOMAIN Notes :
        /\ Notes[i].startStep >= 0
        /\ Notes[i].durationSteps >= 1
        /\ EndStep(Notes[i]) <= Total

\* A note of more than one step was moved past the end: it now sits on the
\* last step.
C4_Witness ==
    /\ lastOp.op = "moveMelodyNote" /\ lastOp.result = "found"
    /\ lastOp.newStartStep >= Total
    /\ \E i \in DOMAIN Notes :
          /\ Notes[i].id = lastOp.noteId
          /\ Notes[i].startStep = Total - 1
    /\ \E i \in DOMAIN Notes : Notes[i].durationSteps > 1

\* C5: a rejected mutation returns the input song: addMelodyNote with a pitch
\* outside [minNote, maxNote] or a startStep outside [0, totalSteps),
\* toggleDrumHit with a step outside [0, totalSteps), adjustPitchBound whose
\* new bound leaves the absolute range or crosses the other bound.
C5_RejectionsReturnSong ==
    /\ \A p \in AddInputs :
          (Parses(p.note) /\ (~PitchInRange(p.note) \/ ~StepInRange(p.startStep)))
              => addMelodyNote(song, p, nextId) = song
    /\ \A p \in ToggleInputs :
          ~StepInRange(p.step) => toggleDrumHit(song, p, nextId) = song
    /\ \A b \in {"min", "max"}, d \in {"up", "down"} :
          LET old == IF b = "min" THEN song.constraints.minNote
                     ELSE song.constraints.maxNote
              new == noteNameToMidi(transposeNoteName(old,
                        IF d = "up" THEN 1 ELSE -1,
                        song.constraints.allowAccidentals))
          IN  (\/ new < noteNameToMidi(PITCH_RANGE_MIN)
               \/ new > noteNameToMidi(PITCH_RANGE_MAX)
               \/ (b = "min" /\ new > MaxMidi)
               \/ (b = "max" /\ new < MinMidi))
                  => adjustPitchBound(song, b, d) = song

\* An addMelodyNote was rejected on a song that holds a note.
C5_Witness ==
    /\ lastOp.op = "addMelodyNote" /\ lastOp.result = "rejected"
    /\ Len(Notes) >= 1

\* C6: the bounds satisfy C2 <= minNote <= maxNote <= C7, and when minNote
\* equals maxNote, raising the minimum and lowering the maximum are rejected.
C6_BoundsOrdered ==
    /\ noteNameToMidi(PITCH_RANGE_MIN) <= MinMidi
    /\ MinMidi <= MaxMidi
    /\ MaxMidi <= noteNameToMidi(PITCH_RANGE_MAX)
    /\ MinMidi = MaxMidi =>
          /\ adjustPitchBound(song, "min", "up") = song
          /\ adjustPitchBound(song, "max", "down") = song

\* With minNote = maxNote, an adjustPitchBound was rejected after an accepted one.
C6_Witness ==
    /\ lastOp.op = "adjustPitchBound" /\ lastOp.result = "rejected"
    /\ MinMidi = MaxMidi
    /\ adjusts >= 1

\* C18: after any sequence of accepted addMelodyNote calls, no two notes of
\* one pitch index have overlapping step intervals, whatever their spelling.
C18_NoOverlapSamePitch ==
    \A i, j \in DOMAIN Notes :
        (i < j /\ noteNameToMidi(Notes[i].note) = noteNameToMidi(Notes[j].note))
            => Disjoint(Notes[i], Notes[j])

\* C19: setMelodyNoteDuration changes only the durationSteps of the note with
\* the id; every other note, also a same-pitch note the resized one now
\* overlaps, stays as it is and where it is, and so does the rest of the song.
C19_ResizeFrame ==
    \A id \in IdInputs, d \in DurInputs :
        LET r == setMelodyNoteDuration(song, id, d)
        IN  /\ [r EXCEPT !.melody.notes = Notes] = song
            /\ Len(r.melody.notes) = Len(Notes)
            /\ \A i \in DOMAIN Notes :
                  IF Notes[i].id # id THEN r.melody.notes[i] = Notes[i]
                  ELSE [r.melody.notes[i] EXCEPT
                            !.durationSteps = Notes[i].durationSteps] = Notes[i]

\* A resize has just made the note overlap another note of the same pitch.
C19_Witness ==
    /\ lastOp.op = "setMelodyNoteDuration" /\ lastOp.result = "found"
    /\ \E i, j \in DOMAIN Notes :
          /\ i # j
          /\ Notes[i].id = lastOp.noteId
          /\ Notes[i].note = Notes[j].note
          /\ ~Disjoint(Notes[i], Notes[j])
          /\ Notes[i].durationSteps > 1

\* C20: removeMelodyNote(song, id) removes exactly the notes with that id and
\* keeps the others as they are, in their order; without such a note the
\* notes are the input's notes.  Nothing else of the song changes.
C20_RemoveExactly ==
    \A id \in 0..(MaxIdsMelody + 1) :
        LET r == removeMelodyNote(song, id).melody.notes
            others == {i \in DOMAIN Notes : Notes[i].id # id}
            \* the position in r of the kept note at position i
            pos(i) == Cardinality({k \in others : k <= i})
        IN  /\ [removeMelodyNote(song, id) EXCEPT !.melody.notes = Notes] = song
            /\ Len(r) = Cardinality(others)
            /\ \A i \in others : r[pos(i)] = Notes[i]
            /\ \A k \in DOMAIN r : r[k].id # id
            /\ others = DOMAIN Notes => r = Notes

\* A note between two others has just been removed.
C20_Witness ==
    /\ lastOp.op = "removeMelodyNote" /\ lastOp.result = "removed"
    /\ \E i \in 1..(Len(Notes) - 1) :
          /\ Notes[i].id < lastOp.noteId
          /\ lastOp.noteId < Notes[i + 1].id

HitAt(hits, p) ==
    \E i \in DOMAIN hits : hits[i].step = p.step /\ hits[i].drumId = p.drumId
\* toggleDrumHit applied twice with the same params; the second call draws
\* the next id when the first call drew one.
ToggleTwice(p) ==
    LET r1 == toggleDrumHit(song, p, nextId)
        id2 == IF Len(r1.drums.hits) > Len(Hits) THEN nextId + 1 ELSE nextId
    IN  toggleDrumHit(r1, p, id2)

\* C7 as stated: toggleDrumHit applied twice with the same in-range params
\* returns a song equal to the original, with the same hits, the same ids and
\* the same order, whether the hit was absent or present.
C7_ToggleTwiceEqual ==
    \A p \in ToggleInputs : StepInRange(p.step) => ToggleTwice(p) = song

\* C7 as amended: toggleDrumHit applied twice with the same in-range params
\* returns the original song when the hit was absent; when it was present,
\* the other hits keep their ids and order, the hit itself is back as the
\* last hit under an id no hit of the original has, and nothing else changes.
C7_ToggleTwice ==
    \A p \in ToggleInputs :
        StepInRange(p.step) =>
            LET r2 == ToggleTwice(p)
                others(h) == ~(h.step = p.step /\ h.drumId = p.drumId)
                last == r2.drums.hits[Len(r2.drums.hits)]
            IN  IF ~HitAt(Hits, p) THEN r2 = song
                ELSE /\ [r2 EXCEPT !.drums.hits = Hits] = song
                     /\ Len(r2.drums.hits) = Len(Hits)
                     /\ SubSeq(r2.drums.hits, 1, Len(Hits) - 1)
                          = SelectSeq(Hits, others)
                     /\ last.step = p.step /\ last.drumId = p.drumId
                     /\ \A i \in DOMAIN Hits : Hits[i].id # last.id

\* A hit that was present was toggled twice in a row: it is back, as the last
\* of several hits.
C7_Witness ==
    /\ lastOp.op = "toggleDrumHit" /\ lastOp.result = "inserted"
    /\ lastOp.repeat
    /\ Len(Hits) >= 2

\* C8: there is at most one hit for each (step, drumId) pair, and every hit's
\* step lies in [0, totalSteps).
C8_HitsUnique ==
    /\ \A i, j \in DOMAIN Hits :
          (Hits[i].step = Hits[j].step /\ Hits[i].drumId = Hits[j].drumId)
              => i = j
    /\ \A i \in DOMAIN Hits : StepInRange(Hits[i].step)

\* A hit was inserted after another one was removed, and two hits are
\* there, both on one step.
C8_Witness ==
    /\ lastOp.op = "toggleDrumHit" /\ lastOp.result = "inserted"
    /\ Len(Hits) = 2
    /\ nextId > 3
    /\ \E i, j \in DOMAIN Hits : i # j /\ Hits[i].step = Hits[j].step

\* C9: setMelodyNoteDuration sets the named note's durationSteps to d clamped
\* into [1, totalSteps - startStep] (d >= totalSteps gives totalSteps -
\* startStep, d <= 0 gives 1) and leaves the notes as they are when no note
\* has the id.
C9_DurationClamp ==
    \A id \in IdInputs, d \in DurInputs \cup {-1, Total, Total + 1} :
        LET r == setMelodyNoteDuration(song, id, d).melody.notes
        IN  /\ Len(r) = Len(Notes)
            /\ \A i \in DOMAIN Notes :
                  IF Notes[i].id # id THEN r[i] = Notes[i]
                  ELSE /\ [r[i] EXCEPT !.durationSteps = 0]
                            = [Notes[i] EXCEPT !.durationSteps = 0]
                       /\ 1 <= r[i].durationSteps
                       /\ r[i].durationSteps <= Total - Notes[i].startStep
                       /\ d >= Total
                            => r[i].durationSteps = Total - Notes[i].startStep
                       /\ d <= 0 => r[i].durationSteps = 1
                       /\ (1 <= d /\ d <= Total - Notes[i].startStep)
                            => r[i].durationSteps = d
                       /\ d > Total - Notes[i].startStep
                            => r[i].durationSteps = Total - Notes[i].startStep

\* A duration of at least totalSteps was set on a note that does not start
\* at step 0: the note now ends with the song.
C9_Witness ==
    /\ lastOp.op = "setMelodyNoteDuration" /\ lastOp.result = "found"
    /\ lastOp.durationSteps >= Total
    /\ \E i \in DOMAIN Notes :
          /\ Notes[i].id = lastOp.noteId
          /\ Notes[i].startStep > 0
          /\ Notes[i].durationSteps = Total - Notes[i].startStep

(***************************************************************************)
(* Pitch utilities                                                         *)
(***************************************************************************)
\* The pitch classes of the natural letters, by mathematical modulo.
IsNaturalIndex(p) == (p % 12) \in {0, 2, 4, 5, 7, 9, 11}

\* The nearest natural pitch strictly beyond p in direction dir (1 or -1):
\* no two neighbouring pitch classes are both non-natural.
NaturalBeyond(p, dir) ==
    IF IsNaturalIndex(p + dir) THEN p + dir ELSE p + 2 * dir

TransposeMeetsContract(op) ==
    LET p == noteNameToMidi(op.note)
        r == op.result
    IN  /\ Parses(r)
        /\ op.allowAccidentals => noteNameToMidi(r) = p + op.semitones
        /\ ~op.allowAccidentals => IsNaturalIndex(noteNameToMidi(r))
        /\ (~op.allowAccidentals /\ op.semitones \in {-1, 1})
              => noteNameToMidi(r) = NaturalBeyond(p, op.semitones)

\* C21: transposeNoteName returns the name of pitch index + delta when
\* accidentals are allowed; when they are not, the result is always a natural
\* pitch, and for delta +1 or -1 it is the nearest natural pitch strictly
\* beyond the input in the direction of travel.
C21_Transpose ==
    (lastOp.op = "transposeNoteName" /\ ~lastOp.threw)
       => TransposeMeetsContract(lastOp)

\* The same contract for the calls whose shifted pitch index is not negative.
C21_TransposeNonNegative ==
    (/\ lastOp.op = "transposeNoteName"
     /\ ~lastOp.threw
     /\ noteNameToMidi(lastOp.note) + Min2(lastOp.semitones, 2 * lastOp.semitones) >= 0)
       => TransposeMeetsContract(lastOp)


\* C22: for every pitch index p in 0..MaxPitch, noteNameToMidi(midiToNoteName(p))
\* is p and midiToNoteName(p) is spelled with a natural letter or a sharp,
\* never a flat; for a flat-spelled name n of such a pitch index,
\* midiToNoteName(noteNameToMidi(n)) has the pitch index of n and another
\* spelling.
C22_RoundTrip ==
    /\ (lastOp.op = "midiToNoteName" /\ lastOp.midi \in 0..MaxPitch)
          => /\ Parses(lastOp.result)
             /\ lastOp.result.accidental \in {"", "#"}
             /\ noteNameToMidi(lastOp.result) = lastOp.midi
    /\ (/\ lastOp.op = "noteNameToMidi"
        /\ ~lastOp.threw
        /\ lastOp.note.accidental = "b"
        /\ lastOp.result >= 0)
          => LET back == midiToNoteName(lastOp.result)
             IN  /\ Parses(back)
                 /\ noteNameToMidi(back) = lastOp.result
                 /\ back # lastOp.note

\* Db1 was converted: its pitch index 25 is spelled C#1.
C22_Witness ==
    /\ lastOp.op = "noteNameToMidi"
    /\ ~lastOp.threw
    /\ lastOp.note = NoteName("D", "b", 1)
    /\ lastOp.result = 25
    /\ midiToNoteName(lastOp.result) = NoteName("C", "#", 1)


(***************************************************************************)
(* Names that do not parse                                                 *)
(***************************************************************************)
\* A letter outside A-G, an accidental other than # and b.
MalformedNotes ==
    {H4, NoteName("C", "x", 4), NoteName("h", "b", 4)}

MalformedAddInputs ==
    [startStep : {-1, 0}, durationSteps : {0, 1}, note : MalformedNotes]

\* C23: addMelodyNote throws on a note name that does not parse, whatever the
\* other arguments, and returns no song; every melody note of a song built by
\* the operations has a name that parses.
C23_MalformedThrows ==
    /\ \A p \in AddInputs \cup MalformedAddInputs :
          ~Parses(p.note) => addMelodyNoteCall(song, p, nextId).threw
    /\ \A i \in 1..Len(Notes) : Parses(Notes[i].note)

\* A call threw on a song that holds a note.
C23_Witness ==
    /\ lastOp.op = "addMelodyNote"
    /\ lastOp.result = "threw"
    /\ Len(Notes) > 0


(***************************************************************************)
(* Legacy import                                                           *)
(***************************************************************************)
DrumNames == {"KICK", "SNARE", "HIHAT"}

\* The <<row, column>> positions of a grid, columns from 0.
CellsOf(grid) ==
    {rc \in (1..Len(grid)) \X (0..MaxCols) : rc[2] < Len(grid[rc[1]])}

CellAt(grid, rc) == grid[rc[1]][rc[2] + 1]

IsDrumCell(cell) == cell # null /\ cell.note \in DrumNames

IsStartCell(cell) ==
    /\ cell # null
    /\ cell.note \notin DrumNames
    /\ "start" \in DOMAIN cell
    /\ cell.start = TRUE

\* The one event the claim gives a cell, without its id.
EventOf(cell, col) ==
    IF IsDrumCell(cell)
    THEN [step |-> col,
          drumId |-> CASE cell.note = "KICK" -> "kick"
                       [] cell.note = "SNARE" -> "snare"
                       [] cell.note = "HIHAT" -> "hihat"]
    ELSE [startStep |-> col,
          durationSteps |-> IF "length" \in DOMAIN cell THEN cell.length ELSE 1,
          note |-> cell.note]

\* C24: after the import of a legacy grid, the drum hits are, one for one,
\* the cells with a drum name, each at its column; the melody notes are, one
\* for one, the other cells with start = true, each with startStep = column
\* and durationSteps = length (1 when absent); no other cell gives an event.
C24_LegacyCells ==
    lastOp.op = "fromLegacyMusicData" =>
       LET grid == lastOp.musicData.grid
           drumCells == {rc \in CellsOf(grid) : IsDrumCell(CellAt(grid, rc))}
           startCells == {rc \in CellsOf(grid) : IsStartCell(CellAt(grid, rc))}
           hitsLike(ev) == {i \in 1..Len(Hits) :
                               [step |-> Hits[i].step,
                                drumId |-> Hits[i].drumId] = ev}
           notesLike(ev) == {i \in 1..Len(Notes) :
                                [startStep |-> Notes[i].startStep,
                                 durationSteps |-> Notes[i].durationSteps,
                                 note |-> Notes[i].note] = ev}
       IN  /\ Len(Hits) = Cardinality(drumCells)
           /\ Len(Notes) = Cardinality(startCells)
           /\ \A rc \in drumCells :
                 Cardinality(hitsLike(EventOf(CellAt(grid, rc), rc[2])))
                    = Cardinality({o \in drumCells :
                         EventOf(CellAt(grid, o), o[2])
                            = EventOf(CellAt(grid, rc), rc[2])})
           /\ \A rc \in startCells :
                 Cardinality(notesLike(EventOf(CellAt(grid, rc), rc[2])))
                    = Cardinality({o \in startCells :
                         EventOf(CellAt(grid, o), o[2])
                            = EventOf(CellAt(grid, rc), rc[2])})

\* A grid with a start cell without length, a sustained cell without start
\* and a drum cell that carries start and length was imported.
C24_Witness ==
    /\ lastOp.op = "fromLegacyMusicData"
    /\ lastOp.musicData.grid =
          <<<<[note |-> "C4", start |-> TRUE], [note |-> "C4", sustained |-> TRUE]>>,
            <<[note |-> "SNARE", start |-> TRUE, length |-> 2]>>>>
    /\ Len(Hits) = 1
    /\ Len(Notes) = 1
    /\ Notes[1].durationSteps = 1


(***************************************************************************)
(* Gestures                                                                *)
(***************************************************************************)
\* The one call of a tap: remove the note the start cell held, else create.
TapCall(g) ==
    IF g.existingNote # null
    THEN [fn |-> "onNoteRemove", noteId |-> g.existingNote.id]
    ELSE [fn |-> "onNoteCreate", noteName |-> g.noteName, step |-> g.step]

GestureContract ==
    /\ (gesture.phase = "ended" /\ ~gesture.reached)
          => calls = <<TapCall(gesture)>>
    /\ (gesture.phase \in {"open", "ended"} /\ gesture.entered >= 0)
          => \A i \in (gesture.entered + 1)..Len(calls) :
                calls[i].fn = "onNoteDurationChange"

\* C25: a gesture of start, moves and end in which no move reached the drag
\* threshold has issued exactly one call, at its end: onNoteRemove when the
\* start cell held a note, otherwise onNoteCreate; once a gesture has entered
\* drag mode, every later call of it is onNoteDurationChange, its end included.
C25_Gesture == gesture.phase # "none" => GestureContract

\* The same for the gestures whose start was not taken for a synthetic mouse
\* event.
C25_AcceptedGesture ==
    (gesture.phase # "none" /\ gesture.accepted) => GestureContract


(***************************************************************************)
(* Triggers of a step                                                      *)
(***************************************************************************)
TimesIn(seq, x) == Cardinality({k \in DOMAIN seq : seq[k] = x})

\* The triggers, a sequence, made for step at time from the song s are one
\* for one the notes that start at step and the hits on step.
TriggersMatch(s, step, time, triggers) ==
    LET notes == s.melody.notes
        hits == s.drums.hits
        sps == (60000 \div s.bpm) \div s.stepsPerBeat
        M == {i \in DOMAIN notes : notes[i].startStep = step}
        D == {i \in DOMAIN hits : hits[i].step = step}
        ofNote(i) == [kind |-> "melody", note |-> notes[i].note,
                      startTime |-> time,
                      duration |-> notes[i].durationSteps * sps]
        ofHit(i) == [kind |-> "drum", drumId |-> hits[i].drumId,
                     startTime |-> time]
    IN  /\ Len(triggers) = Cardinality(M) + Cardinality(D)
        /\ \A i \in M : TimesIn(triggers, ofNote(i))
                           = Cardinality({j \in M : ofNote(j) = ofNote(i)})
        /\ \A i \in D : TimesIn(triggers, ofHit(i))
                           = Cardinality({j \in D : ofHit(j) = ofHit(i)})

\* C26: scheduling step s at time t makes exactly one melody trigger
\* (note, t, durationSteps * secondsPerStep) for each melody note that starts
\* at s and exactly one drum trigger (drumId, t) for each hit on s, and no
\* other trigger: a sustained note gives none at the later steps it covers.
C26_TriggersOfStep ==
    /\ lastCall.op = "scheduleStep"
          => TriggersMatch(lastCall.song, lastCall.step, lastCall.time,
                           lastCall.triggers)
    /\ \A step \in 0..(Total - 1), time \in ScheduleTimes :
          TriggersMatch(song, step, time,
                        scheduleStep(song, step, time, secondsPerStep(song)))

\* Step 1 was scheduled on a song with a note of three steps from step 0, a
\* note starting at step 1 and a hit on step 1: the sustained note gave no
\* trigger.
C26_Witness ==
    /\ lastCall.op = "scheduleStep"
    /\ lastCall.step = 1
    /\ Len(lastCall.triggers) = 2
    /\ \E i \in DOMAIN lastCall.song.melody.notes :
          /\ lastCall.song.melody.notes[i].startStep = 0
          /\ lastCall.song.melody.notes[i].durationSteps = 3
    /\ lastCall.triggers[1].kind = "melody"
    /\ lastCall.triggers[2].kind = "drum"


(***************************************************************************)
(* Sessions                                                                *)
(***************************************************************************)
\* <<step, time>> is the k-th step of the session for a k >= 0: step is
\* k mod total and time is start + k * secondsPerStep.
OnSessionGrid(step, time) ==
    LET sps == secondsPerStep(song)
        k == (time - sessionLog.start) \div sps
    IN  /\ time >= sessionLog.start
        /\ time = sessionLog.start + k * sps
        /\ step = k % totalSteps(song)

\* C27: a play() that starts playing schedules step 0 first, at the audio
\* clock + PLAY_LEAD, also after a stop() that found the cursor inside the
\* loop; every step a run of the session schedules is k mod totalSteps at
\* start + k * secondsPerStep, the runs follow each other without a gap, and
\* the cursor is the next k.
C27_SessionSteps ==
    /\ (lastCall.op = "play" /\ lastCall.result = "started")
          => /\ lastCall.scheduled[1] = <<0, lastTick + PLAY_LEAD>>
             /\ sessionLog.start = lastTick + PLAY_LEAD
    /\ ((lastCall.op = "play" /\ lastCall.result = "started")
           \/ lastCall.op = "tick")
          => /\ \A i \in DOMAIN lastCall.scheduled :
                   OnSessionGrid(lastCall.scheduled[i][1],
                                 lastCall.scheduled[i][2])
             /\ \A i \in 2..Len(lastCall.scheduled) :
                   lastCall.scheduled[i][2]
                      = lastCall.scheduled[i - 1][2] + secondsPerStep(song)
             /\ Len(lastCall.scheduled) > 0
                   => lastCall.scheduled[Len(lastCall.scheduled)][2]
                         + secondsPerStep(song) = nextNoteTime
    /\ state = "playing" => OnSessionGrid(currentStep, nextNoteTime)

\* The second session has started after a stop() that found the cursor at
\* step 2, and a later run has scheduled across the end of the loop.
C27_Witness ==
    /\ sessions = 2
    /\ sessionLog.stoppedAt = 2
    /\ lastCall.op = "tick"
    /\ Len(lastCall.scheduled) > 0
    /\ lastCall.scheduled[Len(lastCall.scheduled)][1] = 0
    /\ lastCall.scheduled[Len(lastCall.scheduled)][2]
          = sessionLog.start + 4 * secondsPerStep(song)


\* C28: a scheduler run schedules a step only when the step's start time is
\* strictly below the clock + LOOKAHEAD; when a run ends in the playing
\* state, nextNoteTime, the start time of the next unscheduled step, is at
\* least the clock + LOOKAHEAD; so nextNoteTime is never further ahead of the
\* clock than LOOKAHEAD plus one step.
C28_Horizon ==
    /\ state = "playing" =>
          \A closure \in intervals :
              LET run == schedulerRun(EngineState, closure)
              IN  /\ \A i \in DOMAIN run.scheduled :
                        run.scheduled[i][2] < currentTime + LOOKAHEAD
                  /\ run.nextNoteTime >= currentTime + LOOKAHEAD
                  /\ run.nextNoteTime - currentTime
                        <= LOOKAHEAD + closure.secondsPerStep
    /\ ((lastCall.op = "play" /\ lastCall.result = "started")
           \/ lastCall.op = "tick")
          => /\ \A i \in DOMAIN lastCall.scheduled :
                   lastCall.scheduled[i][2] < lastTick + LOOKAHEAD
             /\ state = "playing" => nextNoteTime >= lastTick + LOOKAHEAD
    /\ state = "playing"
          => nextNoteTime - currentTime <= LOOKAHEAD + secondsPerStep(song)

\* A tick has scheduled one step that starts one timer period inside the
\* horizon, and the next step starts beyond it.
C28_Witness ==
    /\ state = "playing"
    /\ lastCall.op = "tick"
    /\ Len(lastCall.scheduled) = 1
    /\ lastCall.scheduled[1][2] = lastTick + LOOKAHEAD - SCHEDULE_INTERVAL
    /\ nextNoteTime > lastTick + LOOKAHEAD


(***************************************************************************)
(* The loop goes on                                                        *)
(***************************************************************************)
\* The scheduler run at the present clock has scheduled step s.
ScheduledNow(s) ==
    /\ lastTick = currentTime
    /\ "scheduled" \in DOMAIN lastCall
    /\ \E i \in DOMAIN lastCall.scheduled : lastCall.scheduled[i][1] = s

\* C29: with the clock advancing and the recurring timer firing, from every
\* playing state each step of the loop is scheduled again unless the engine
\* leaves the playing state, and it leaves the playing state only by stop().
C29_EveryStepAgain ==
    /\ \A s \in LoopSteps :
          (state = "playing") ~> (ScheduledNow(s) \/ state # "playing")
    /\ [][(state = "playing" /\ state' # "playing") => lastCall'.op = "stop"]_vars

\* In the first session, never stopped, a timer tick has scheduled step 0
\* again after the last step of the loop.
C29_Witness ==
    /\ sessions = 1
    /\ stops = 0
    /\ state = "playing"
    /\ lastCall.op = "tick"
    /\ ScheduledNow(0)


(***************************************************************************)
(* What an operation leaves alone                                          *)
(***************************************************************************)
\* r differs from the song in the melody at most.
OnlyMelody(r) ==
    /\ r.drums.hits = song.drums.hits
    /\ r.constraints = song.constraints
    /\ r.bpm = song.bpm
    /\ r.bars = song.bars
    /\ r.stepsPerBeat = song.stepsPerBeat

\* The notes of s whose pitch lies within the bounds of the song r, in order.
NotesWithin(s, r) ==
    LET within(n) ==
            /\ noteNameToMidi(n.note) >= noteNameToMidi(r.constraints.minNote)
            /\ noteNameToMidi(n.note) <= noteNameToMidi(r.constraints.maxNote)
    IN  SelectSeq(s.melody.notes, within)

\* r differs from the song in the bound named and in the notes outside the
\* bounds of r at most.
OnlyBound(r, bound) ==
    /\ r.drums.hits = song.drums.hits
    /\ bound = "min" => r.constraints.maxNote = song.constraints.maxNote
    /\ bound = "max" => r.constraints.minNote = song.constraints.minNote
    /\ r.constraints.allowAccidentals = song.constraints.allowAccidentals
    /\ r.constraints.tempoLocked = song.constraints.tempoLocked
    /\ r.constraints.barsLocked = song.constraints.barsLocked
    /\ r.constraints.drumsEnabled = song.constraints.drumsEnabled
    /\ NotesWithin(r, r) = NotesWithin(song, r)

\* C30: on every song, addMelodyNote, removeMelodyNote and
\* setMelodyNoteDuration return a song with the same drums.hits, constraints,
\* bpm, bars and stepsPerBeat; toggleDrumHit returns one with the same
\* melody.notes and constraints; adjustPitchBound returns one with the same
\* drums.hits, the same other bound, the same constraint flags and the same
\* melody notes within the new bounds.
C30_Frames ==
    /\ \A p \in AddInputs :
          Parses(p.note) => OnlyMelody(addMelodyNote(song, p, nextId))
    /\ \A id \in IdInputs : OnlyMelody(removeMelodyNote(song, id))
    /\ \A id \in IdInputs, d \in DurInputs :
          OnlyMelody(setMelodyNoteDuration(song, id, d))
    /\ \A p \in ToggleInputs :
          LET r == toggleDrumHit(song, p, nextId)
          IN  /\ r.melody.notes = song.melody.notes
              /\ r.constraints = song.constraints
    /\ \A bound \in {"min", "max"}, direction \in {"up", "down"} :
          OnlyBound(adjustPitchBound(song, bound, direction), bound)

\* An accepted adjustPitchBound has removed a note and kept another, on a
\* song that had two notes.
C30_Witness ==
    /\ lastOp.op = "adjustPitchBound"
    /\ lastOp.result = "accepted"
    /\ lastOp.pruned = 1
    /\ Len(Notes) = 1


(***************************************************************************)
(* The pitch bounds of a song without accidentals                          *)
(***************************************************************************)
BoundOf(s, bound) ==
    IF bound = "min" THEN s.constraints.minNote ELSE s.constraints.maxNote

IsNaturalName(note) ==
    /\ note.letter \in UpperLetters
    /\ note.accidental = ""
    /\ IsNaturalIndex(noteNameToMidi(note))

\* An accepted call moves the chosen bound of s to the adjacent natural pitch
\* in the requested direction, one or two semitones away.
MovesToAdjacentNatural(s, bound, direction) ==
    LET r == adjustPitchBound(s, bound, direction)
        dir == IF direction = "up" THEN 1 ELSE -1
        old == noteNameToMidi(BoundOf(s, bound))
        new == noteNameToMidi(BoundOf(r, bound))
    IN  r # s =>
          /\ new = NaturalBeyond(old, dir)
          /\ (new - old) * dir \in {1, 2}

\* An accepted up followed by down on the same bound restores that bound.
UpThenDownRestores(s, bound) ==
    LET up == adjustPitchBound(s, bound, "up")
        back == adjustPitchBound(up, bound, "down")
    IN  up # s => BoundOf(back, bound) = BoundOf(s, bound)

\* C31: starting from the default song (no accidentals, bounds C4..C5), after
\* any sequence of adjustPitchBound calls minNote and maxNote are natural
\* pitches, every accepted call moves the chosen bound to the adjacent natural
\* pitch in the requested direction (1 or 2 semitones away), and an accepted
\* up followed by down on the same bound restores that bound.
C31_NaturalBounds ==
    /\ IsNaturalName(song.constraints.minNote)
    /\ IsNaturalName(song.constraints.maxNote)
    /\ \A b \in {"min", "max"} :
          /\ \A d \in {"up", "down"} : MovesToAdjacentNatural(song, b, d)
          /\ UpThenDownRestores(song, b)

\* An accepted one-semitone step (E5 to F5) after two-semitone steps, with
\* the lower bound already moved down.
C31_Witness ==
    /\ lastOp.op = "adjustPitchBound"
    /\ lastOp.result = "accepted"
    /\ lastOp.bound = "max"
    /\ lastOp.direction = "up"
    /\ song.constraints.maxNote = NoteName("F", "", 5)
    /\ song.constraints.minNote = NoteName("B", "", 3)

(***************************************************************************)
(* addMelodyNote and the allowAccidentals flag                             *)
(***************************************************************************)
WithAccidentals(s, flag) == [s EXCEPT !.constraints.allowAccidentals = flag]

\* Natural and accidental names inside, on and outside the bounds C4..C5.
FlagNotes ==
    {C4, Cs4, Db4, C5, D5, NoteName("B", "", 3), NoteName("C", "#", 5),
     NoteName("B", "#", 3), NoteName("A", "#", 4)}
FlagAddInputs ==
    [startStep : StepInputs \cup {16}, durationSteps : DurInputs,
     note : FlagNotes]

\* The call on song s is accepted exactly on pitch range and startStep, and
\* gives the same song whatever the flag is.
FlagIndependent(s, p) ==
    LET r == addMelodyNote(s, p, newId)
        midi == noteNameToMidi(p.note)
        inRange == /\ noteNameToMidi(s.constraints.minNote) <= midi
                   /\ midi <= noteNameToMidi(s.constraints.maxNote)
        onGrid == 0 <= p.startStep /\ p.startStep < Total
    IN  /\ (r # s) <=> (inRange /\ onGrid)
        /\ \A flag \in BOOLEAN :
              addMelodyNote(WithAccidentals(s, flag), p, newId)
                 = WithAccidentals(r, flag)
        /\ (r # s) => r.melody.notes[Len(r.melody.notes)].note = p.note

\* C32: addMelodyNote accepts or rejects on pitch range and startStep only:
\* its result does not depend on constraints.allowAccidentals, so with
\* allowAccidentals = false an in-range accidental note (C#4 inside C4..C5)
\* is added to the melody.
C32_FlagIgnored ==
    /\ \A p \in FlagAddInputs : FlagIndependent(song, p)
    /\ (lastOp.op = "addMelodyNote" /\ lastOp.result = "accepted")
          => /\ Len(song.melody.notes) > 0
             /\ song.melody.notes[Len(song.melody.notes)].note
                   = lastOp.params.note

\* C#4 was just added to a song that does not allow accidentals.
C32_Witness ==
    /\ ~song.constraints.allowAccidentals
    /\ lastOp.op = "addMelodyNote"
    /\ lastOp.result = "accepted"
    /\ lastOp.params.note = Cs4
    /\ \E i \in 1..Len(song.melody.notes) : song.melody.notes[i].note = Cs4

(***************************************************************************)
(* The previews and the transport                                          *)
(***************************************************************************)
\* A step of a preview call: one is made, goes on after an await, or ends.
PreviewStep == previews' # previews

\* C33: playNotePreview and playDrumPreview never change the transport state,
\* the step cursor, the next-step time or the recurring timer, whether they
\* run while stopped or while playing, in any interleaving with scheduler
\* ticks.
C33_PreviewFrames ==
    [][PreviewStep => UNCHANGED <<state, currentStep, nextNoteTime,
                                  schedulerInterval, intervals>>]_vars

\* A preview called while playing awaited resume(), a tick moved the cursor
\* between the call and the sound, and the engine is still playing.
C33_Witness ==
    /\ lastSound.kind = "note"
    /\ lastSound.calledIn = "playing"
    /\ lastSound.calledAt # lastSound.cursor
    /\ state = "playing"
    /\ schedulerInterval # 0

====
